---- MODULE Spec2Model ----
(***************************************************************************)
(* Topology construction and force-field assignment engine of fftool.      *)
(*                                                                         *)
(* A molecule is read from a file (atom names, bond list, explicit         *)
(* impropers), its angles, dihedrals and impropers are enumerated by       *)
(* mol.anglesdiheds, and mol.setff matches atoms and bonded terms against  *)
(* the force-field database.  system.__init__ then merges the species into *)
(* global type tables and builds the van der Waals cross terms.            *)
(*                                                                         *)
(* Units: lengths are integers in 1/100 Angstrom, angles integers in       *)
(* degrees, so that the tolerances of the program are integers.  Type      *)
(* labels and names are strings; a term name is the program's '-'-joined   *)
(* string.  Python object identity of a term is its position in the list  *)
(* it was created in.                                                      *)
(***************************************************************************)
EXTENDS Integers, Sequences, FiniteSets, TLC

VARIABLES
    prog,       \* which source file runs: "fftool" or "fftool_tri"
    guess,      \* mol.guessconnect: bonds are inferred by mol.connectivity
    atom,       \* mol.atom
    bond,       \* mol.bond
    angle,      \* mol.angle
    dihed,      \* mol.dihed
    dimpr,      \* mol.dimpr
    ff,         \* the forcefield object: atom, bond, angle, dihed, dimpr tables
    inp,        \* the molecule file: bond records, improper records
    geom,       \* measured geometry: r of atom pairs, th of atom triples
    pc,         \* position of the control flow
    toremove,   \* the lists toremove of setff (positions of the marked terms)
    miss,       \* local lists anmiss, dhmiss, dimiss of setff
    log,        \* what was printed: tolerance warnings, errors
    pre,        \* the term lists as they were when setff was entered
    spec,       \* system.spec: the species
    tables,     \* system.attype, bdtype, antype, dhtype, ditype
    vdw,        \* system.vdw
    mix         \* mixing rule given to system.__init__

molvars == <<prog, guess, atom, bond, angle, dihed, dimpr, ff, inp, geom,
             pc, toremove, miss, log, pre>>
sysvars == <<spec, tables, vdw, mix>>
vars == <<molvars, sysvars>>
molvarsButPc == <<prog, guess, atom, bond, angle, dihed, dimpr, ff, inp,
                  geom, toremove, miss, log, pre>>

----------------------------------------------------------------------------
(* Tolerances: BondTol = 0.25 Angstrom, AngleTol = 15.0 degrees.           *)
BondTol == 25
AngleTol == 15

Abs(x) == IF x < 0 THEN -x ELSE x

Range(s) == {s[n] : n \in 1..Len(s)}

(* list.append(x) only when x is not yet in the list *)
AppendNew(s, x) == IF x \in Range(s) THEN s ELSE Append(s, x)

(* The list s without the elements at the positions in drop: the effect of *)
(* "for t in toremove: list.remove(t)" when every element is its own       *)
(* object (no class of the program defines __eq__).                        *)
RECURSIVE RemoveAt(_, _, _)
RemoveAt(s, drop, n) ==
    IF n > Len(s) THEN <<>>
    ELSE (IF n \in drop THEN <<>> ELSE <<s[n]>>) \o RemoveAt(s, drop, n + 1)

----------------------------------------------------------------------------
(* Names of bonded terms: '{0}-{1}'.format(...) and '%s-%s-%s' % (...)     *)
Name2(a, b) == a \o "-" \o b
Name3(a, b, c) == a \o "-" \o b \o "-" \o c
Name4(a, b, c, d) == a \o "-" \o b \o "-" \o c \o "-" \o d

(* atom.__init__, bond.__init__, angle.__init__, dihed.__init__            *)
NewAtom(name) ==
    [name |-> name, type |-> "", q |-> 0, pot |-> "", par |-> <<>>,
     m |-> 0, ityp |-> -1]
NewBond(i, j) ==
    [i |-> i, j |-> j, name |-> "", iatp |-> "", jatp |-> "",
     pot |-> "", par |-> <<>>, ityp |-> -1]
NewAngle(i, j, k) ==
    [i |-> i, j |-> j, k |-> k, name |-> "", iatp |-> "", jatp |-> "",
     katp |-> "", pot |-> "", par |-> <<>>, ityp |-> -1]
NewDihed(i, j, k, l) ==
    [i |-> i, j |-> j, k |-> k, l |-> l, name |-> "", iatp |-> "",
     jatp |-> "", katp |-> "", latp |-> "", pot |-> "", par |-> <<>>,
     ityp |-> -1]

(* atom.setpar, bond.setpar, angle.setpar, dihed.setpar                    *)
AtomSetpar(at, attp, q, pot, par) ==
    [at EXCEPT !.type = attp, !.q = q, !.pot = pot, !.par = par]
BondSetpar(bd, iatp, jatp, pot, par) ==
    [bd EXCEPT !.name = Name2(iatp, jatp), !.iatp = iatp, !.jatp = jatp,
               !.pot = pot, !.par = par]
AngleSetpar(an, iatp, jatp, katp, pot, par) ==
    [an EXCEPT !.name = Name3(iatp, jatp, katp), !.iatp = iatp,
               !.jatp = jatp, !.katp = katp, !.pot = pot, !.par = par]
DihedSetpar(dh, iatp, jatp, katp, latp, pot, par) ==
    [dh EXCEPT !.name = Name4(iatp, jatp, katp, latp), !.iatp = iatp,
               !.jatp = jatp, !.katp = katp, !.latp = latp,
               !.pot = pot, !.par = par]

(* bond.seteqval, angle.seteqval: the equilibrium value of a template with *)
(* potential harm or cons is its first parameter; -1 stands for the abort  *)
(* on an unknown potential, which ends the program while the force field   *)
(* is loaded.                                                              *)
Seteqval(t) == IF t.pot \in {"harm", "cons"} THEN t.par[1] ELSE -1

(* bond.checkval, angle.checkval *)
(* variant: a distance exactly BondTol from the equilibrium value passes *)
BondCheckvalClosed(ffbd, r) == Abs(r - Seteqval(ffbd)) <= BondTol
BondCheckval(ffbd, r) == Abs(r - Seteqval(ffbd)) < BondTol
(* variant: the angle is compared with the tolerance of the bonds *)
AngleCheckvalBondTol(ffan, th) == Abs(th - Seteqval(ffan)) < BondTol
AngleCheckval(ffan, th) == Abs(th - Seteqval(ffan)) < AngleTol

----------------------------------------------------------------------------
(* mol.anglesdiheds                                                        *)

(* variant: only the bonds that start at atom i are followed *)
RECURSIVE NeibForward(_, _, _)
NeibForward(i, bonds, n) ==
    IF n > Len(bonds) THEN <<>>
    ELSE (IF i = bonds[n].i THEN <<bonds[n].j>>
          ELSE <<>>) \o NeibForward(i, bonds, n + 1)
(* the list neib of atom i: its bond partners in bond-list order *)
RECURSIVE Neib(_, _, _)
Neib(i, bonds, n) ==
    IF n > Len(bonds) THEN <<>>
    ELSE (IF i = bonds[n].i THEN <<bonds[n].j>>
          ELSE IF i = bonds[n].j THEN <<bonds[n].i>>
          ELSE <<>>) \o Neib(i, bonds, n + 1)

(* the angles around atom i: pairs k < l of positions in neib *)
RECURSIVE AnglesOf(_, _, _, _)
AnglesOf(i, nb, k, l) ==
    IF k > Len(nb) - 1 THEN <<>>
    ELSE IF l > Len(nb) THEN AnglesOf(i, nb, k + 1, k + 2)
    ELSE <<NewAngle(nb[k], i, nb[l])>> \o AnglesOf(i, nb, k, l + 1)

RECURSIVE IdentifyAngles(_, _, _)
IdentifyAngles(bonds, natom, i) ==
    IF i >= natom THEN <<>>
    ELSE AnglesOf(i, Neib(i, bonds, 1), 1, 2)
         \o IdentifyAngles(bonds, natom, i + 1)

(* variant: bond l is followed only if it starts at the first atom of k *)
DihedAtForward(bonds, k, l, j) ==
    LET bk == bonds[k]
        bl == bonds[l]
        bj == bonds[j]
        first == IF bl.i = bk.i THEN <<bl.j>>
                 ELSE <<>>
        last == IF bj.i = bk.j THEN <<bj.j>>
                ELSE IF bj.j = bk.j THEN <<bj.i>>
                ELSE <<>>
    IN  IF l = k \/ j = k \/ j = l \/ first = <<>> \/ last = <<>>
        THEN <<>>
        ELSE <<NewDihed(first[1], bk.i, bk.j, last[1])>>
(* the dihedral, if any, that the loops over k, l, j emit for bonds k, l, j *)
DihedAt(bonds, k, l, j) ==
    LET bk == bonds[k]
        bl == bonds[l]
        bj == bonds[j]
        first == IF bl.i = bk.i THEN <<bl.j>>
                 ELSE IF bl.j = bk.i THEN <<bl.i>>
                 ELSE <<>>
        last == IF bj.i = bk.j THEN <<bj.j>>
                ELSE IF bj.j = bk.j THEN <<bj.i>>
                ELSE <<>>
    IN  IF l = k \/ j = k \/ j = l \/ first = <<>> \/ last = <<>>
        THEN <<>>
        ELSE <<NewDihed(first[1], bk.i, bk.j, last[1])>>

(* the loops "for j", "for l" and "for k" over the bonds *)
RECURSIVE DihedsJ(_, _, _, _)
DihedsJ(bonds, k, l, j) ==
    IF j > Len(bonds) THEN <<>>
    ELSE DihedAt(bonds, k, l, j) \o DihedsJ(bonds, k, l, j + 1)

RECURSIVE DihedsL(_, _, _)
DihedsL(bonds, k, l) ==
    IF l > Len(bonds) THEN <<>>
    ELSE DihedsJ(bonds, k, l, 1) \o DihedsL(bonds, k, l + 1)

RECURSIVE IdentifyDiheds(_, _)
IdentifyDiheds(bonds, k) ==
    IF k > Len(bonds) THEN <<>>
    ELSE DihedsL(bonds, k, 1) \o IdentifyDiheds(bonds, k + 1)

(* variant: an improper on every atom with three or more neighbours *)
RECURSIVE IdentifyImpropersFrom3(_, _, _)
IdentifyImpropersFrom3(bonds, natom, i) ==
    IF i >= natom THEN <<>>
    ELSE LET nb == Neib(i, bonds, 1)
         IN  (IF Len(nb) >= 3 THEN <<NewDihed(nb[1], nb[2], i, nb[3])>>
              ELSE <<>>) \o IdentifyImpropersFrom3(bonds, natom, i + 1)
(* impropers on atoms with exactly three neighbours *)
RECURSIVE IdentifyImpropers(_, _, _)
IdentifyImpropers(bonds, natom, i) ==
    IF i >= natom THEN <<>>
    ELSE LET nb == Neib(i, bonds, 1)
         IN  (IF Len(nb) = 3 THEN <<NewDihed(nb[1], nb[2], i, nb[3])>>
              ELSE <<>>) \o IdentifyImpropers(bonds, natom, i + 1)


----------------------------------------------------------------------------
(* The matching loops of mol.setff and mol.connectivity.  Each operator is *)
(* the inner "for ff.. in ff..." loop for one atom or term, started at     *)
(* template n = 1 with found = FALSE.                                      *)

(* setff, atoms: every record with the atom's name overwrites the atom *)
RECURSIVE AtomLoop(_, _, _)
AtomLoop(st, ffatom, n) ==
    IF n > Len(ffatom) THEN st
    ELSE LET ffat == ffatom[n]
         IN  IF st.at.name = ffat.name
             THEN AtomLoop([at |-> [AtomSetpar(st.at, ffat.type, ffat.q,
                                               ffat.pot, ffat.par)
                                    EXCEPT !.m = ffat.m],
                            found |-> TRUE,
                            dup |-> st.dup \/ st.found], ffatom, n + 1)
             ELSE AtomLoop(st, ffatom, n + 1)

MatchAtom(at, ffatom) ==
    AtomLoop([at |-> at, found |-> FALSE, dup |-> FALSE], ffatom, 1)

(* connectivity, atoms: only the type label is copied *)
RECURSIVE TypeLoop(_, _, _)
TypeLoop(st, ffatom, n) ==
    IF n > Len(ffatom) THEN st
    ELSE IF st.at.name = ffatom[n].name
         THEN TypeLoop([at |-> [st.at EXCEPT !.type = ffatom[n].type],
                        found |-> TRUE], ffatom, n + 1)
         ELSE TypeLoop(st, ffatom, n + 1)

ResolveType(at, ffatom) == TypeLoop([at |-> at, found |-> FALSE], ffatom, 1)

(* setff, bonds: r is the measured length *)
(* variant: only the first matching record sets the parameters *)
RECURSIVE BondLoopFirst(_, _, _, _, _)
BondLoopFirst(st, ffbond, names, r, n) ==
    IF n > Len(ffbond) THEN st
    ELSE LET ffbd == ffbond[n]
             nameff == Name2(ffbd.iatp, ffbd.jatp)
         IN  IF nameff \in names
             THEN BondLoopFirst(
                      [bd |-> IF st.found THEN st.bd
                              ELSE BondSetpar(st.bd, ffbd.iatp, ffbd.jatp,
                                              ffbd.pot, ffbd.par),
                       warn |-> st.warn \/ ~BondCheckval(ffbd, r),
                       dup |-> st.dup \/ st.found,
                       found |-> TRUE], ffbond, names, r, n + 1)
             ELSE BondLoopFirst(st, ffbond, names, r, n + 1)
RECURSIVE BondLoop(_, _, _, _, _)
BondLoop(st, ffbond, names, r, n) ==
    IF n > Len(ffbond) THEN st
    ELSE LET ffbd == ffbond[n]
             nameff == Name2(ffbd.iatp, ffbd.jatp)
         IN  IF nameff \in names
             THEN BondLoop([bd |-> BondSetpar(st.bd, ffbd.iatp, ffbd.jatp,
                                              ffbd.pot, ffbd.par),
                            warn |-> st.warn \/ ~BondCheckval(ffbd, r),
                            dup |-> st.dup \/ st.found,
                            found |-> TRUE], ffbond, names, r, n + 1)
             ELSE BondLoop(st, ffbond, names, r, n + 1)

(* variant: a template out of tolerance does not count as found *)
MatchBondInTolerance(bd, ti, tj, r, ffbond) ==
    LET m == BondLoop([bd |-> bd, warn |-> FALSE, dup |-> FALSE,
                       found |-> FALSE],
                      ffbond, {Name2(ti, tj), Name2(tj, ti)}, r, 1)
    IN  [m EXCEPT !.found = m.found /\ ~m.warn]
MatchBond(bd, ti, tj, r, ffbond) ==
    BondLoop([bd |-> bd, warn |-> FALSE, dup |-> FALSE, found |-> FALSE],
             ffbond, {Name2(ti, tj), Name2(tj, ti)}, r, 1)

(* setff, angles: th is the measured angle *)
(* variant: only the first matching record is checked against the angle *)
RECURSIVE AngleLoopCheckFirst(_, _, _, _, _)
AngleLoopCheckFirst(st, ffangle, names, th, n) ==
    IF n > Len(ffangle) THEN st
    ELSE LET ffan == ffangle[n]
             nameff == Name3(ffan.iatp, ffan.jatp, ffan.katp)
         IN  IF nameff \in names
             THEN AngleLoopCheckFirst(
                    [an |-> AngleSetpar(st.an, ffan.iatp, ffan.jatp,
                                        ffan.katp, ffan.pot, ffan.par),
                     check |-> IF st.found THEN st.check
                               ELSE AngleCheckval(ffan, th),
                     dup |-> st.dup \/ st.found,
                     found |-> TRUE], ffangle, names, th, n + 1)
             ELSE AngleLoopCheckFirst(st, ffangle, names, th, n + 1)
RECURSIVE AngleLoop(_, _, _, _, _)
AngleLoop(st, ffangle, names, th, n) ==
    IF n > Len(ffangle) THEN st
    ELSE LET ffan == ffangle[n]
             nameff == Name3(ffan.iatp, ffan.jatp, ffan.katp)
         IN  IF nameff \in names
             THEN AngleLoop([an |-> AngleSetpar(st.an, ffan.iatp, ffan.jatp,
                                                ffan.katp, ffan.pot, ffan.par),
                             check |-> st.check /\ AngleCheckval(ffan, th),
                             dup |-> st.dup \/ st.found,
                             found |-> TRUE], ffangle, names, th, n + 1)
             ELSE AngleLoop(st, ffangle, names, th, n + 1)

MatchAngle(an, ti, tj, tk, th, ffangle) ==
    AngleLoop([an |-> an, check |-> TRUE, dup |-> FALSE, found |-> FALSE],
              ffangle, {Name3(ti, tj, tk), Name3(tk, tj, ti)}, th, 1)

(* setff, dihedrals *)
RECURSIVE DihedLoop(_, _, _, _)
DihedLoop(st, ffdihed, names, n) ==
    IF n > Len(ffdihed) THEN st
    ELSE LET ffdh == ffdihed[n]
             nameff == Name4(ffdh.iatp, ffdh.jatp, ffdh.katp, ffdh.latp)
         IN  IF nameff \in names
             THEN DihedLoop([dh |-> DihedSetpar(st.dh, ffdh.iatp, ffdh.jatp,
                                                ffdh.katp, ffdh.latp,
                                                ffdh.pot, ffdh.par),
                             dup |-> st.dup \/ st.found,
                             found |-> TRUE], ffdihed, names, n + 1)
             ELSE DihedLoop(st, ffdihed, names, n + 1)

(* variant: only the name in the order i-j-k-l is looked up *)
MatchDihedForward(dh, ti, tj, tk, tl, ffdihed) ==
    DihedLoop([dh |-> dh, dup |-> FALSE, found |-> FALSE],
              ffdihed, {Name4(ti, tj, tk, tl)}, 1)
MatchDihed(dh, ti, tj, tk, tl, ffdihed) ==
    DihedLoop([dh |-> dh, dup |-> FALSE, found |-> FALSE],
              ffdihed, {Name4(ti, tj, tk, tl), Name4(tl, tk, tj, ti)}, 1)

(* setff, impropers: the six candidate names, in the order of the list *)
ImproperNames(ti, tj, tk, tl) ==
    << Name4(ti, tj, tk, tl), Name4(tj, ti, tk, tl), Name4(ti, tl, tk, tj),
       Name4(tl, ti, tk, tj), Name4(tj, tl, tk, ti), Name4(tl, tj, tk, ti) >>

(* variant: the two assignments are made one after the other *)
SwapIJSequential(di) == [di EXCEPT !.i = di.j]
SwapIJ(di) == [di EXCEPT !.i = di.j, !.j = di.i]
SwapJL(di) == [di EXCEPT !.j = di.l, !.l = di.j]
SwapIL(di) == [di EXCEPT !.i = di.l, !.l = di.i]

(* "sort atom numbering according to impropers in ff": the if/elif chain   *)
(* on the template name nameff; ti, tj, tl are the types read before the   *)
(* loop over the templates started.                                        *)
SortImproper(di, nameff, names, ti, tj, tl) ==
    IF nameff = names[2] /\ tj # ti THEN SwapIJ(di)
    ELSE IF nameff = names[3] /\ tl # tj THEN SwapJL(di)
    ELSE IF nameff = names[4]
         THEN LET d1 == IF tl # tj THEN SwapJL(di) ELSE di
              IN  IF tj # ti THEN SwapIJ(d1) ELSE d1
    ELSE IF nameff = names[5]
         THEN LET d1 == IF tl # ti THEN SwapIL(di) ELSE di
              IN  IF tj # ti THEN SwapIJ(d1) ELSE d1
    ELSE IF nameff = names[6] /\ tl # ti THEN SwapIL(di)
    ELSE di

RECURSIVE DimprLoop(_, _, _, _, _, _, _)
DimprLoop(st, ffdimpr, names, ti, tj, tl, n) ==
    IF n > Len(ffdimpr) THEN st
    ELSE LET ffdi == ffdimpr[n]
             nameff == Name4(ffdi.iatp, ffdi.jatp, ffdi.katp, ffdi.latp)
         IN  IF nameff \in Range(names)
             THEN DimprLoop(
                    [di |-> DihedSetpar(
                              SortImproper(st.di, nameff, names, ti, tj, tl),
                              ffdi.iatp, ffdi.jatp, ffdi.katp, ffdi.latp,
                              ffdi.pot, ffdi.par),
                     dup |-> st.dup \/ st.found,
                     found |-> TRUE], ffdimpr, names, ti, tj, tl, n + 1)
             ELSE DimprLoop(st, ffdimpr, names, ti, tj, tl, n + 1)

MatchImproper(di, ti, tj, tk, tl, ffdimpr) ==
    DimprLoop([di |-> di, dup |-> FALSE, found |-> FALSE], ffdimpr,
              ImproperNames(ti, tj, tk, tl), ti, tj, tl, 1)

(* "remove dupplicate impropers differing by i-j or j-i" (fftool.py only): *)
(* position j is marked when an earlier position i has the same first two  *)
(* atoms, in either order.                                                 *)
SameIJ(a, b) == (a.i = b.j /\ a.j = b.i) \/ (a.i = b.i /\ a.j = b.j)

DuplicateImpropers(list) ==
    {j \in 1..Len(list) : \E i \in 1..(j - 1) : SameIJ(list[i], list[j])}

----------------------------------------------------------------------------
(* Measured geometry.  dist2atoms and angle3atoms are floating-point       *)
(* functions of the atom positions; the matcher only compares their        *)
(* results with the tolerances, so the molecule's geometry is given as the *)
(* measured values themselves.  Both are symmetric in the outer atoms.     *)
dist2atoms(i, j) == geom.r[{i, j}]
angle3atoms(i, j, k) == geom.th[<<j, {i, k}>>]

(* mol.connectivity, second part: the loops over i < j and over ff.bond    *)
RECURSIVE ConnPair(_, _, _, _, _)
ConnPair(atoms, i, j, ffbond, n) ==
    IF n > Len(ffbond) THEN <<>>
    ELSE LET ffbd == ffbond[n]
             nameff == Name2(ffbd.iatp, ffbd.jatp)
             names == {Name2(atoms[i + 1].type, atoms[j + 1].type),
                       Name2(atoms[j + 1].type, atoms[i + 1].type)}
         IN  (IF nameff \in names /\ BondCheckval(ffbd, dist2atoms(i, j))
              THEN <<NewBond(i, j)>> ELSE <<>>)
             \o ConnPair(atoms, i, j, ffbond, n + 1)

RECURSIVE ConnBonds(_, _, _, _)
ConnBonds(atoms, ffbond, i, j) ==
    IF i >= Len(atoms) - 1 THEN <<>>
    ELSE IF j >= Len(atoms) THEN ConnBonds(atoms, ffbond, i + 1, i + 2)
    ELSE ConnPair(atoms, i, j, ffbond, 1)
         \o ConnBonds(atoms, ffbond, i, j + 1)

(* mol.connectivity, first part: "for at in self.atom" *)
(* variant: the loop is left at the first atom without a record *)
RECURSIVE ConnAtomsExitFirst(_, _, _)
ConnAtomsExitFirst(st, ffatom, n) ==
    IF n > Len(st.atom) \/ st.error THEN st
    ELSE LET m == ResolveType(st.atom[n], ffatom)
         IN  ConnAtomsExitFirst([atom |-> [st.atom EXCEPT ![n] = m.at],
                                 error |-> st.error \/ ~m.found,
                                 log |-> IF m.found THEN st.log
                                         ELSE st.log
                                     \cup {<<"no parameters for atom", n>>}],
                                ffatom, n + 1)
RECURSIVE ConnAtoms(_, _, _)
ConnAtoms(st, ffatom, n) ==
    IF n > Len(st.atom) THEN st
    ELSE LET m == ResolveType(st.atom[n], ffatom)
         IN  ConnAtoms([atom |-> [st.atom EXCEPT ![n] = m.at],
                        error |-> st.error \/ ~m.found,
                        log |-> IF m.found THEN st.log
                                ELSE st.log
                                     \cup {<<"no parameters for atom", n>>}],
                       ffatom, n + 1)

(* the improper records of the z-matrix file, fromzmat *)
FileImpropers(records) ==
    [n \in 1..Len(records) |->
        NewDihed(records[n][1], records[n][2], records[n][3], records[n][4])]

(* the bond records of the molecule file, fromzmat / frommdlmol *)
FileBonds(records) ==
    [n \in 1..Len(records) |-> NewBond(records[n][1], records[n][2])]

(* anglesdiheds: impropers are identified only if none was supplied *)
AnglesDiheds(bonds, impropers, natom) ==
    [angle |-> IdentifyAngles(bonds, natom, 0),
     dihed |-> IdentifyDiheds(bonds, 1),
     dimpr |-> IF impropers = <<>>
               THEN IdentifyImpropers(bonds, natom, 0)
               ELSE impropers]

----------------------------------------------------------------------------
(* The loops of mol.setff over the atoms and the term lists.  st carries   *)
(* the list being matched and the local variables the loop updates.        *)

RECURSIVE SetffAtomsLoop(_, _, _)
SetffAtomsLoop(st, ffatom, n) ==
    IF n > Len(st.atom) THEN st
    ELSE LET m == MatchAtom(st.atom[n], ffatom)
         IN  SetffAtomsLoop(
               [atom |-> [st.atom EXCEPT ![n] = m.at],
                error |-> st.error \/ ~m.found,
                log |-> st.log
                   \cup (IF m.found THEN {}
                         ELSE {<<"no parameters for atom", n>>})
                   \cup (IF m.dup THEN {<<"duplicate atom", n>>} ELSE {})],
               ffatom, n + 1)

(* variant: the loop is left at the first bond without a template *)
RECURSIVE SetffBondsLoopExitFirst(_, _, _, _)
SetffBondsLoopExitFirst(st, atoms, ffbond, n) ==
    IF n > Len(st.bond) \/ st.error THEN st
    ELSE LET bd == st.bond[n]
             m == MatchBond(bd, atoms[bd.i + 1].type, atoms[bd.j + 1].type,
                            dist2atoms(bd.i, bd.j), ffbond)
         IN  SetffBondsLoopExitFirst(
               [bond |-> [st.bond EXCEPT ![n] = m.bd],
                error |-> st.error \/ ~m.found,
                log |-> st.log
                   \cup (IF m.found THEN {}
                         ELSE {<<"no parameters for bond", n>>})
                   \cup (IF m.warn THEN {<<"warning: bond", n>>} ELSE {})
                   \cup (IF m.dup THEN {<<"duplicate bond", n>>} ELSE {})],
               atoms, ffbond, n + 1)
RECURSIVE SetffBondsLoop(_, _, _, _)
SetffBondsLoop(st, atoms, ffbond, n) ==
    IF n > Len(st.bond) THEN st
    ELSE LET bd == st.bond[n]
             m == MatchBond(bd, atoms[bd.i + 1].type, atoms[bd.j + 1].type,
                            dist2atoms(bd.i, bd.j), ffbond)
         IN  SetffBondsLoop(
               [bond |-> [st.bond EXCEPT ![n] = m.bd],
                error |-> st.error \/ ~m.found,
                log |-> st.log
                   \cup (IF m.found THEN {}
                         ELSE {<<"no parameters for bond", n>>})
                   \cup (IF m.warn THEN {<<"warning: bond", n>>} ELSE {})
                   \cup (IF m.dup THEN {<<"duplicate bond", n>>} ELSE {})],
               atoms, ffbond, n + 1)

(* variant: the type of an angle that fails the tolerance check is added  *)
(* to anmiss as well                                                       *)
RECURSIVE SetffAnglesLoopMissBoth(_, _, _, _)
SetffAnglesLoopMissBoth(st, atoms, ffangle, n) ==
    IF n > Len(st.angle) THEN st
    ELSE LET an == st.angle[n]
             ti == atoms[an.i + 1].type
             tj == atoms[an.j + 1].type
             tk == atoms[an.k + 1].type
             m == MatchAngle(an, ti, tj, tk, angle3atoms(an.i, an.j, an.k),
                             ffangle)
         IN  SetffAnglesLoopMissBoth(
               [angle |-> [st.angle EXCEPT ![n] = m.an],
                toremove |-> st.toremove
                   \o (IF ~m.check THEN <<n>> ELSE <<>>)
                   \o (IF ~m.found THEN <<n>> ELSE <<>>),
                miss |-> IF m.found /\ m.check THEN st.miss
                         ELSE AppendNew(st.miss, Name3(ti, tj, tk)),
                log |-> st.log
                   \cup (IF ~m.check THEN {<<"warning: angle removed", n>>}
                         ELSE {})
                   \cup (IF m.dup THEN {<<"duplicate angle", n>>} ELSE {})],
               atoms, ffangle, n + 1)
RECURSIVE SetffAnglesLoop(_, _, _, _)
SetffAnglesLoop(st, atoms, ffangle, n) ==
    IF n > Len(st.angle) THEN st
    ELSE LET an == st.angle[n]
             ti == atoms[an.i + 1].type
             tj == atoms[an.j + 1].type
             tk == atoms[an.k + 1].type
             m == MatchAngle(an, ti, tj, tk, angle3atoms(an.i, an.j, an.k),
                             ffangle)
         IN  SetffAnglesLoop(
               [angle |-> [st.angle EXCEPT ![n] = m.an],
                toremove |-> st.toremove
                   \o (IF ~m.check THEN <<n>> ELSE <<>>)
                   \o (IF ~m.found THEN <<n>> ELSE <<>>),
                miss |-> IF m.found THEN st.miss
                         ELSE AppendNew(st.miss, Name3(ti, tj, tk)),
                log |-> st.log
                   \cup (IF ~m.check THEN {<<"warning: angle removed", n>>}
                         ELSE {})
                   \cup (IF m.dup THEN {<<"duplicate angle", n>>} ELSE {})],
               atoms, ffangle, n + 1)

RECURSIVE SetffDihedsLoop(_, _, _, _)
SetffDihedsLoop(st, atoms, ffdihed, n) ==
    IF n > Len(st.dihed) THEN st
    ELSE LET dh == st.dihed[n]
             ti == atoms[dh.i + 1].type
             tj == atoms[dh.j + 1].type
             tk == atoms[dh.k + 1].type
             tl == atoms[dh.l + 1].type
             m == MatchDihed(dh, ti, tj, tk, tl, ffdihed)
         IN  SetffDihedsLoop(
               [dihed |-> [st.dihed EXCEPT ![n] = m.dh],
                toremove |-> st.toremove
                   \o (IF ~m.found THEN <<n>> ELSE <<>>),
                miss |-> IF m.found THEN st.miss
                         ELSE AppendNew(st.miss, Name4(ti, tj, tk, tl)),
                log |-> st.log
                   \cup (IF m.dup THEN {<<"duplicate dihedral", n>>}
                         ELSE {})],
               atoms, ffdihed, n + 1)

RECURSIVE SetffDimprsLoop(_, _, _, _)
SetffDimprsLoop(st, atoms, ffdimpr, n) ==
    IF n > Len(st.dimpr) THEN st
    ELSE LET di == st.dimpr[n]
             ti == atoms[di.i + 1].type
             tj == atoms[di.j + 1].type
             tk == atoms[di.k + 1].type
             tl == atoms[di.l + 1].type
             m == MatchImproper(di, ti, tj, tk, tl, ffdimpr)
         IN  SetffDimprsLoop(
               [dimpr |-> [st.dimpr EXCEPT ![n] = m.di],
                toremove |-> st.toremove
                   \o (IF ~m.found THEN <<n>> ELSE <<>>),
                miss |-> IF m.found THEN st.miss
                         ELSE AppendNew(st.miss, Name4(ti, tj, tk, tl)),
                log |-> st.log
                   \cup (IF m.dup THEN {<<"duplicate improper", n>>}
                         ELSE {})],
               atoms, ffdimpr, n + 1)

----------------------------------------------------------------------------
(* The molecule is built: mol.__init__ -> fromzmat / frommdlmol.           *)

(* topology from the file (only if a force field is named), anglesdiheds   *)
TopologyFromFile ==
    /\ pc = "topology"
    /\ ~guess
    /\ IF inp.ff
       THEN LET bonds == FileBonds(inp.bond)
                t == AnglesDiheds(bonds, FileImpropers(inp.improper),
                                  Len(atom))
            IN  /\ bond' = bonds
                /\ angle' = t.angle
                /\ dihed' = t.dihed
                /\ dimpr' = t.dimpr
       ELSE UNCHANGED <<bond, angle, dihed, dimpr>>
    /\ pc' = "setff"
    /\ UNCHANGED <<prog, guess, atom, ff, inp, geom, toremove, miss, log,
                   pre, sysvars>>

(* connectivity, up to its exit on an unresolved atom *)
ConnectivityAtoms ==
    /\ pc = "topology"
    /\ guess
    /\ inp.ff
    /\ LET st == ConnAtoms([atom |-> atom, error |-> FALSE, log |-> log],
                           ff.atom, 1)
       IN  /\ atom' = st.atom
           /\ log' = st.log
           /\ pc' = IF st.error THEN "abort" ELSE "conn_bonds"
    /\ UNCHANGED <<prog, guess, bond, angle, dihed, dimpr, ff, inp, geom,
                   toremove, miss, pre, sysvars>>

(* connectivity: the bonds are inferred; back in fromzmat the improper     *)
(* records are added and anglesdiheds runs                                 *)
ConnectivityBonds ==
    /\ pc = "conn_bonds"
    /\ LET bonds == ConnBonds(atom, ff.bond, 0, 1)
           t == AnglesDiheds(bonds, FileImpropers(inp.improper), Len(atom))
       IN  /\ bond' = bonds
           /\ angle' = t.angle
           /\ dihed' = t.dihed
           /\ dimpr' = t.dimpr
    /\ pc' = "setff"
    /\ UNCHANGED <<prog, guess, atom, ff, inp, geom, toremove, miss, log,
                   pre, sysvars>>

----------------------------------------------------------------------------
(* mol.setff, one action per loop of the method.                           *)

(* without a force field every atom is its own lj type and setff returns;  *)
(* otherwise the atoms are matched, and setff exits if one has no record   *)
SetffAtoms ==
    /\ pc = "setff"
    /\ pre' = [bond |-> bond, angle |-> angle, dihed |-> dihed,
               dimpr |-> dimpr]
    /\ IF ~inp.ff
       THEN /\ atom' = [n \in 1..Len(atom) |->
                          AtomSetpar(atom[n], atom[n].name, 0, "lj", <<0, 0>>)]
            /\ pc' = "done"
            /\ log' = log
       ELSE LET st == SetffAtomsLoop([atom |-> atom, error |-> FALSE,
                                      log |-> log], ff.atom, 1)
            IN  /\ atom' = st.atom
                /\ log' = st.log
                /\ pc' = IF st.error THEN "abort" ELSE "bonds"
    /\ UNCHANGED <<prog, guess, bond, angle, dihed, dimpr, ff, inp, geom,
                   toremove, miss, sysvars>>

(* "for bd in self.bond", and the exit if a bond has no template *)
SetffBonds ==
    /\ pc = "bonds"
    /\ LET st == SetffBondsLoop([bond |-> bond, error |-> FALSE, log |-> log],
                                atom, ff.bond, 1)
       IN  /\ bond' = st.bond
           /\ log' = st.log
           /\ pc' = IF st.error THEN "abort" ELSE "angles"
    /\ UNCHANGED <<prog, guess, atom, angle, dihed, dimpr, ff, inp, geom,
                   toremove, miss, pre, sysvars>>

(* "for an in self.angle", then "for an in toremove" *)
SetffAngles ==
    /\ pc = "angles"
    /\ LET st == SetffAnglesLoop([angle |-> angle, toremove |-> <<>>,
                                  miss |-> <<>>, log |-> log],
                                 atom, ff.angle, 1)
       IN  /\ angle' = RemoveAt(st.angle, Range(st.toremove), 1)
           /\ toremove' = [toremove EXCEPT !.an = st.toremove]
           /\ miss' = [miss EXCEPT !.an = st.miss]
           /\ log' = st.log
    /\ pc' = "diheds"
    /\ UNCHANGED <<prog, guess, atom, bond, dihed, dimpr, ff, inp, geom,
                   pre, sysvars>>

(* "for dh in self.dihed", then "for dh in toremove" *)
SetffDiheds ==
    /\ pc = "diheds"
    /\ LET st == SetffDihedsLoop([dihed |-> dihed, toremove |-> <<>>,
                                  miss |-> <<>>, log |-> log],
                                 atom, ff.dihed, 1)
       IN  /\ dihed' = RemoveAt(st.dihed, Range(st.toremove), 1)
           /\ toremove' = [toremove EXCEPT !.dh = st.toremove]
           /\ miss' = [miss EXCEPT !.dh = st.miss]
           /\ log' = st.log
    /\ pc' = "dimprs"
    /\ UNCHANGED <<prog, guess, atom, bond, angle, dimpr, ff, inp, geom,
                   pre, sysvars>>

(* "for di in self.dimpr", then "for di in toremove".  fftool_tri.py has   *)
(* no duplicate pass: there setff reports the missing types and returns.   *)
SetffDimprs ==
    /\ pc = "dimprs"
    /\ LET st == SetffDimprsLoop([dimpr |-> dimpr, toremove |-> <<>>,
                                  miss |-> <<>>, log |-> log],
                                 atom, ff.dimpr, 1)
       IN  /\ dimpr' = RemoveAt(st.dimpr, Range(st.toremove), 1)
           /\ toremove' = [toremove EXCEPT !.di = st.toremove]
           /\ miss' = [miss EXCEPT !.di = st.miss]
           /\ log' = st.log
    /\ pc' = IF prog = "fftool" THEN "duplicates" ELSE "done"
    /\ UNCHANGED <<prog, guess, atom, bond, angle, dihed, ff, inp, geom,
                   pre, sysvars>>

(* fftool.py: the duplicate impropers are marked and removed, the missing  *)
(* types are reported and setff returns                                    *)
SetffDuplicates ==
    /\ pc = "duplicates"
    /\ LET dup == DuplicateImpropers(dimpr)
       IN  /\ dimpr' = RemoveAt(dimpr, dup, 1)
           /\ toremove' = [toremove EXCEPT !.dup = dup]
    /\ pc' = "done"
    /\ UNCHANGED <<prog, guess, atom, bond, angle, dihed, ff, inp, geom,
                   miss, log, pre, sysvars>>

----------------------------------------------------------------------------
(* class system: the type tables and the van der Waals list.  A species is *)
(* a finished molecule; a table holds references to the objects of the     *)
(* species, r.sp being the species and r.n the place in its list `kind`.   *)

Kinds == <<"atom", "bond", "angle", "dihed", "dimpr">>

Obj(sp, kind, r) == sp[r.sp][kind][r.n]

Min(S) == CHOOSE x \in S : \A y \in S : x <= y

(* math.sqrt and the division by 2., on the values the force fields below  *)
(* give them: perfect squares and even sums                                *)
Sqrt(n) == CHOOSE r \in 0..n : r * r = n
Half(n) == CHOOSE h \in 0..n : 2 * h = n

(* variant: every object is appended to the table *)
RECURSIVE BuildTypeListAll(_, _, _, _, _)
BuildTypeListAll(sp, kind, s, n, termtype) ==
    IF n > Len(sp[s][kind]) THEN termtype
    ELSE BuildTypeListAll(sp, kind, s, n + 1,
                          Append(termtype, [sp |-> s, n |-> n]))
(* build_type_list(sp[s].kind, termtype) *)
RECURSIVE BuildTypeList(_, _, _, _, _)
BuildTypeList(sp, kind, s, n, termtype) ==
    IF n > Len(sp[s][kind]) THEN termtype
    ELSE LET a == sp[s][kind][n]
             found == \E b \in 1..Len(termtype) :
                          a.name = Obj(sp, kind, termtype[b]).name
         IN  BuildTypeList(sp, kind, s, n + 1,
                           IF found THEN termtype
                           ELSE Append(termtype, [sp |-> s, n |-> n]))

(* "for sp in self.spec: self.build_type_list(sp.kind, ...)" *)
RECURSIVE BuildTypes(_, _, _, _)
BuildTypes(sp, kind, s, termtype) ==
    IF s > Len(sp) THEN termtype
    ELSE BuildTypes(sp, kind, s + 1, BuildTypeList(sp, kind, s, 1, termtype))

(* assign_type_index(sp[s].kind, termtype): the index is stored in the     *)
(* object and in the object the table refers to                            *)
RECURSIVE AssignTypeIndex(_, _, _, _, _)
AssignTypeIndex(sp, kind, s, n, termtype) ==
    IF n > Len(sp[s][kind]) THEN sp
    ELSE LET a == sp[s][kind][n]
             hits == {i \in 1..Len(termtype) :
                         a.name = Obj(sp, kind, termtype[i]).name}
         IN  IF hits = {} THEN AssignTypeIndex(sp, kind, s, n + 1, termtype)
             ELSE LET i == Min(hits)
                      r == termtype[i]
                      sp1 == [sp EXCEPT ![r.sp][kind][r.n].ityp = i - 1]
                      sp2 == [sp1 EXCEPT ![s][kind][n].ityp = i - 1]
                  IN  AssignTypeIndex(sp2, kind, s, n + 1, termtype)

(* "for sp in self.spec: self.assign_type_index(sp.kind, ...)" *)
RECURSIVE AssignTypes(_, _, _, _)
AssignTypes(sp, kind, s, termtype) ==
    IF s > Len(sp) THEN sp
    ELSE AssignTypes(AssignTypeIndex(sp, kind, s, 1, termtype), kind, s + 1,
                     termtype)

(* variant: only the potentials are compared *)
VdwErrorPotOnly(iat, jat) ==
    IF iat.pot # jat.pot THEN "incompatible potential types" ELSE ""
(* vdw.__init__: the two exits *)
VdwError(iat, jat) ==
    IF iat.pot # jat.pot THEN "incompatible potential types"
    ELSE IF Len(iat.par) # Len(jat.par)
         THEN "different lengths in parameter lists"
    ELSE ""

(* variant: sigma is the geometric mean whatever the mixing rule *)
NewVdwGeometric(iat, jat, mixing) ==
    [i |-> iat.name, j |-> jat.name, ityp |-> iat.ityp, jtyp |-> jat.ityp,
     pot |-> iat.pot,
     haspar |-> iat.pot = "lj",
     par |-> IF iat.pot # "lj" THEN <<>>
             ELSE IF iat.name = jat.name THEN iat.par
             ELSE << Sqrt(iat.par[1] * jat.par[1]),
                     Sqrt(iat.par[2] * jat.par[2]) >>]
(* vdw.__init__ when it returns; par is set only for the potential lj *)
NewVdw(iat, jat, mixing) ==
    [i |-> iat.name, j |-> jat.name, ityp |-> iat.ityp, jtyp |-> jat.ityp,
     pot |-> iat.pot,
     haspar |-> iat.pot = "lj",
     par |-> IF iat.pot # "lj" THEN <<>>
             ELSE IF iat.name = jat.name THEN iat.par
             ELSE << IF mixing = "g" THEN Sqrt(iat.par[1] * jat.par[1])
                     ELSE Half(iat.par[1] + jat.par[1]),
                     Sqrt(iat.par[2] * jat.par[2]) >>]

(* variant: the pairs of an atom type with itself are left out *)
RECURSIVE VdwLoopDistinct(_, _, _, _, _)
VdwLoopDistinct(st, attype, mixing, i, j) ==
    IF i >= Len(attype) \/ st.error # "" THEN st
    ELSE IF j = i THEN VdwLoopDistinct(st, attype, mixing, i, i + 1)
    ELSE IF j >= Len(attype)
         THEN VdwLoopDistinct(st, attype, mixing, i + 1, i + 1)
    ELSE LET e == VdwError(attype[i + 1], attype[j + 1])
         IN  VdwLoopDistinct(
               [vdw |-> IF e = "" THEN Append(st.vdw,
                                              NewVdw(attype[i + 1],
                                                     attype[j + 1], mixing))
                        ELSE st.vdw,
                error |-> e, i |-> i, j |-> j],
               attype, mixing, i, j + 1)
(* "for i in range(nattypes): for j in range(i, nattypes)", left at the    *)
(* first vdw object whose construction exits                               *)
RECURSIVE VdwLoop(_, _, _, _, _)
VdwLoop(st, attype, mixing, i, j) ==
    IF i >= Len(attype) \/ st.error # "" THEN st
    ELSE IF j >= Len(attype) THEN VdwLoop(st, attype, mixing, i + 1, i + 1)
    ELSE LET e == VdwError(attype[i + 1], attype[j + 1])
         IN  VdwLoop(
               [vdw |-> IF e = "" THEN Append(st.vdw,
                                              NewVdw(attype[i + 1],
                                                     attype[j + 1], mixing))
                        ELSE st.vdw,
                error |-> e, i |-> i, j |-> j],
               attype, mixing, i, j + 1)

(* the molecule that mol.__init__ returned *)
Finished ==
    [atom |-> atom, bond |-> bond, angle |-> angle, dihed |-> dihed,
     dimpr |-> dimpr]

(* main: the next molecule file is read: mol(zfile, connect, box) *)
ReadNextMol(files, max) ==
    /\ pc = "done"
    /\ Len(spec) + 1 < max
    /\ spec' = Append(spec, Finished)
    /\ \E m \in files :
          /\ atom' = [n \in 1..Len(m.names) |-> NewAtom(m.names[n])]
          /\ inp' = m.inp
          /\ geom' = m.geom
          /\ ff' = m.ff
    /\ bond' = <<>> /\ angle' = <<>> /\ dihed' = <<>> /\ dimpr' = <<>>
    /\ pc' = "topology"
    /\ toremove' = [an |-> <<>>, dh |-> <<>>, di |-> <<>>, dup |-> {}]
    /\ miss' = [an |-> <<>>, dh |-> <<>>, di |-> <<>>]
    /\ log' = {}
    /\ pre' = [bond |-> <<>>, angle |-> <<>>, dihed |-> <<>>, dimpr |-> <<>>]
    /\ UNCHANGED <<prog, guess, tables, vdw, mix>>

(* main: the last molecule file has been read, system(spec, box, mix) is   *)
(* called                                                                  *)
StartSystem ==
    /\ pc = "done"
    /\ spec' = Append(spec, Finished)
    /\ pc' = "build"
    /\ UNCHANGED <<molvarsButPc, tables, vdw, mix>>

(* system.__init__: the five tables are built *)
SystemBuildTypes ==
    /\ pc = "build"
    /\ tables' = [kind \in Range(Kinds) |-> BuildTypes(spec, kind, 1, <<>>)]
    /\ pc' = "assign"
    /\ UNCHANGED <<molvarsButPc, spec, vdw, mix>>

(* system.__init__: the type indices are assigned *)
RECURSIVE AssignKinds(_, _)
AssignKinds(sp, n) ==
    IF n > Len(Kinds) THEN sp
    ELSE AssignKinds(AssignTypes(sp, Kinds[n], 1, tables[Kinds[n]]), n + 1)

SystemAssignTypes ==
    /\ pc = "assign"
    /\ spec' = AssignKinds(spec, 1)
    /\ pc' = "vdw"
    /\ UNCHANGED <<molvarsButPc, tables, vdw, mix>>

(* system.__init__: the van der Waals list *)
SystemVdw ==
    /\ pc = "vdw"
    /\ LET attype == [p \in 1..Len(tables.atom) |->
                         Obj(spec, "atom", tables.atom[p])]
           st == VdwLoop([vdw |-> <<>>, error |-> "", i |-> 0, j |-> 0],
                         attype, mix, 0, 0)
       IN  /\ vdw' = st.vdw
           /\ pc' = IF st.error = "" THEN "sys_done" ELSE "sys_abort"
           /\ log' = IF st.error = "" THEN log
                     ELSE log \cup {<<st.error, st.i, st.j>>}
    /\ UNCHANGED <<prog, guess, atom, bond, angle, dihed, dimpr, ff, inp,
                   geom, toremove, miss, pre, spec, tables, mix>>

----------------------------------------------------------------------------
(* Inputs.  A force-field file gives five tables of records; a molecule    *)
(* file gives atom names, bond records and improper records.               *)

(* bounds of the model *)
NAtom == 3       \* atoms of the molecules whose bonds and angles are matched
MaxTpl == 2      \* records of a force-field table that is enumerated
MaxImproper == 2 \* improper records of a molecule file
MaxSpec == 2     \* molecule files on the command line

(* the sequences over U of length at most max *)
Tables(U, max) == UNION {[1..n -> U] : n \in 0..max}

(* records of the force-field file, as forcefield.__init__ stores them *)
FFAtomPot(name, type, q, pot, par) ==
    [AtomSetpar(NewAtom(name), type, q, pot, par) EXCEPT !.m = 12]
FFAtom(name, type, q, par) == FFAtomPot(name, type, q, "lj", par)
FFBond(iatp, jatp, eq, k) ==
    BondSetpar(NewBond(-1, -1), iatp, jatp, "harm", <<eq, k>>)
FFAngle(iatp, jatp, katp, eq, k) ==
    AngleSetpar(NewAngle(-1, -1, -1), iatp, jatp, katp, "harm", <<eq, k>>)
FFDihed(iatp, jatp, katp, latp, v) ==
    DihedSetpar(NewDihed(-1, -1, -1, -1), iatp, jatp, katp, latp, "opls",
                <<v, 0, 0, 0>>)

(* measured values: 1.54 and 1.20 Angstrom, 95 and 90 degrees *)
Dists == {154, 120}
Thetas == {95, 90}

(* bond records a table is drawn from; B-A is A-B under the other ordering *)
BondUniverse ==
    {FFBond("A", "A", 153, 1000), FFBond("A", "B", 153, 1100),
     FFBond("B", "A", 118, 1200), FFBond("B", "B", 153, 1300)}

(* angle records a table is drawn from: two records A-A-B with different  *)
(* equilibrium values, and B-A-A, the same type under the other ordering   *)
AngleUniverse ==
    {FFAngle("A", "A", "A", 109, 500), FFAngle("A", "A", "B", 109, 510),
     FFAngle("A", "A", "B", 120, 520), FFAngle("B", "A", "A", 109, 530)}

(* atom records a table is drawn from: two records carry the name CA *)
AtomUniverse ==
    {FFAtom("CA", "A", 1, <<16, 4>>), FFAtom("CB", "B", -1, <<36, 9>>),
     FFAtom("CA", "B", 2, <<4, 1>>)}

(* dihedral records a table is drawn from: B-A-A-A is A-A-A-B reversed *)
DihedUniverse ==
    {FFDihed("A", "A", "A", "A", 1), FFDihed("A", "A", "A", "B", 2),
     FFDihed("B", "A", "A", "A", 3), FFDihed("A", "B", "B", "A", 4)}

(* improper records a table is drawn from, all with the central type A *)
ImproperUniverse ==
    {FFDihed("A", "A", "A", "A", 10), FFDihed("A", "B", "A", "A", 20),
     FFDihed("B", "A", "A", "A", 30)}

(* improper records of a z-matrix file with atom 0 in the centre: the      *)
(* second is the first with i and j exchanged, the third has another l     *)
ImproperRecords == {<<1, 2, 0, 3>>, <<2, 1, 0, 3>>, <<1, 2, 0, 4>>}

(* a complete database for the types A and B *)
BaseAtoms ==
    <<FFAtom("CA", "A", 1, <<16, 4>>), FFAtom("CB", "B", -1, <<36, 9>>)>>
BaseBonds ==
    <<FFBond("A", "A", 153, 1000), FFBond("A", "B", 153, 1100),
      FFBond("B", "B", 153, 1300)>>
BaseAngles ==
    <<FFAngle("A", "A", "A", 109, 500), FFAngle("A", "A", "B", 109, 510),
      FFAngle("B", "A", "B", 109, 520), FFAngle("A", "B", "A", 109, 530),
      FFAngle("A", "B", "B", 109, 540), FFAngle("B", "B", "B", 109, 550)>>
BaseDiheds ==
    <<FFDihed("A", "A", "A", "A", 1), FFDihed("A", "A", "A", "B", 2)>>
BaseDimprs ==
    <<FFDihed("A", "A", "A", "A", 10), FFDihed("A", "B", "A", "A", 20)>>

BaseFF == [atom |-> BaseAtoms, bond |-> BaseBonds, angle |-> BaseAngles,
           dihed |-> BaseDiheds, dimpr |-> BaseDimprs]

(* a database for the types A, B and C with every bond type, and the      *)
(* improper records with central type A or B over these three labels       *)
Labels == {"A", "B", "C"}
AtomsABC ==
    BaseAtoms \o << FFAtom("CC", "C", 0, <<64, 16>>) >>
BondsABC ==
    <<FFBond("A", "A", 153, 1000), FFBond("A", "B", 153, 1100),
      FFBond("B", "B", 153, 1300), FFBond("A", "C", 153, 1400),
      FFBond("B", "C", 153, 1500), FFBond("C", "C", 153, 1600)>>
ImpropersABC ==
    {FFDihed(a, b, c, d, 10) : a, b, d \in Labels, c \in {"A", "B"}}

(* bond records of a z-matrix of n atoms: atom i is bonded to atom ir - 1; *)
(* every atom to the one before it (a chain) or every atom to the first    *)
Chain(n) == [i \in 1..(n - 1) |-> <<i, i - 1>>]
Star(n) == [i \in 1..(n - 1) |-> <<i, 0>>]

(* the atom pairs and triples that setff measures for a file topology *)
BondPairs(records) == {{records[n][1], records[n][2]} : n \in 1..Len(records)}
AngleKeys(records, natom) ==
    LET an == IdentifyAngles(FileBonds(records), natom, 0)
    IN  {<<an[n].j, {an[n].i, an[n].k}>> : n \in 1..Len(an)}
(* the pairs and triples that connectivity and setff can measure *)
AllPairs(natom) ==
    {{i, j} : i, j \in 0..(natom - 1)} \ {{i} : i \in 0..(natom - 1)}
AllKeys(natom) ==
    {<<j, {i, k}>> : i, j, k \in 0..(natom - 1)}

(* the state after the atoms of the molecule file have been created *)
InitMol(progs, names, records, impropers, ffs, ds, ths) ==
    /\ prog \in progs
    /\ guess = FALSE
    /\ \E nm \in names :
          atom = [n \in 1..Len(nm) |-> NewAtom(nm[n])]
    /\ \E rec \in records, imp \in impropers :
          /\ inp = [ff |-> TRUE, bond |-> rec, improper |-> imp]
          /\ geom \in [r : [BondPairs(rec) -> ds],
                       th : [AngleKeys(rec, Len(atom)) -> ths]]
    /\ ff \in ffs
    /\ bond = <<>> /\ angle = <<>> /\ dihed = <<>> /\ dimpr = <<>>
    /\ pc = "topology"
    /\ toremove = [an |-> <<>>, dh |-> <<>>, di |-> <<>>, dup |-> {}]
    /\ miss = [an |-> <<>>, dh |-> <<>>, di |-> <<>>]
    /\ log = {}
    /\ pre = [bond |-> <<>>, angle |-> <<>>, dihed |-> <<>>, dimpr |-> <<>>]

(* the same for a molecule file without bond records: the bonds are to be *)
(* inferred from the distances between all pairs of atoms                  *)
InitGuess(progs, names, impropers, ffs, ds, ths) ==
    /\ prog \in progs
    /\ guess = TRUE
    /\ \E nm \in names :
          atom = [n \in 1..Len(nm) |-> NewAtom(nm[n])]
    /\ \E imp \in impropers :
          inp = [ff |-> TRUE, bond |-> <<>>, improper |-> imp]
    /\ geom \in [r : [AllPairs(Len(atom)) -> ds],
                 th : [AllKeys(Len(atom)) -> ths]]
    /\ ff \in ffs
    /\ bond = <<>> /\ angle = <<>> /\ dihed = <<>> /\ dimpr = <<>>
    /\ pc = "topology"
    /\ toremove = [an |-> <<>>, dh |-> <<>>, di |-> <<>>, dup |-> {}]
    /\ miss = [an |-> <<>>, dh |-> <<>>, di |-> <<>>]
    /\ log = {}
    /\ pre = [bond |-> <<>>, angle |-> <<>>, dihed |-> <<>>, dimpr |-> <<>>]

(* a molecule file that names no force field: no topology is built *)
InitNoFF ==
    /\ prog \in {"fftool", "fftool_tri"}
    /\ guess = FALSE
    /\ atom \in {[n \in 1..NAtom |-> NewAtom(nm)] : nm \in {"CA", "CB"}}
    /\ inp = [ff |-> FALSE, bond |-> Chain(NAtom), improper |-> <<>>]
    /\ geom = [r |-> <<>>, th |-> <<>>]
    /\ ff = [atom |-> <<>>, bond |-> <<>>, angle |-> <<>>, dihed |-> <<>>,
             dimpr |-> <<>>]
    /\ bond = <<>> /\ angle = <<>> /\ dihed = <<>> /\ dimpr = <<>>
    /\ pc = "topology"
    /\ toremove = [an |-> <<>>, dh |-> <<>>, di |-> <<>>, dup |-> {}]
    /\ miss = [an |-> <<>>, dh |-> <<>>, di |-> <<>>]
    /\ log = {}
    /\ pre = [bond |-> <<>>, angle |-> <<>>, dihed |-> <<>>, dimpr |-> <<>>]

InitSysIdle ==
    /\ spec = <<>>
    /\ tables = [atom |-> <<>>, bond |-> <<>>, angle |-> <<>>,
                 dihed |-> <<>>, dimpr |-> <<>>]
    /\ vdw = <<>>
    /\ mix = "g"

(* molecules of NAtom atoms with measured bond lengths, matched against    *)
(* every bond table of at most MaxTpl records                              *)
Init ==
    /\ \/ InitMol({"fftool"}, [1..NAtom -> {"CA", "CB"}],
                  {Chain(NAtom), Star(NAtom)}, {<<>>},
                  {[BaseFF EXCEPT !.bond = t] :
                       t \in Tables(BondUniverse, MaxTpl)},
                  Dists, {95})
       \/ InitNoFF
    /\ InitSysIdle

(* chains of NAtom + 1 atoms with measured angles, matched against every   *)
(* angle table of at most MaxTpl records                                   *)
InitAngles ==
    /\ InitMol({"fftool"}, [1..(NAtom + 1) -> {"CA", "CB"}],
               {Chain(NAtom + 1)}, {<<>>},
               {[BaseFF EXCEPT !.angle = t] :
                    t \in Tables(AngleUniverse, MaxTpl)},
               {154}, Thetas)
    /\ InitSysIdle

(* molecules whose atom names are looked up in every atom table of at most *)
(* MaxTpl records, with the bonds given or to be inferred; XX is a name no *)
(* record carries                                                          *)
InitAtoms ==
    /\ \/ InitMol({"fftool", "fftool_tri"}, [1..NAtom -> {"CA", "CB", "XX"}],
                  {Chain(NAtom)}, {<<>>},
                  {[BaseFF EXCEPT !.atom = t] :
                       t \in Tables(AtomUniverse, MaxTpl)},
                  {154}, {95})
       \/ InitGuess({"fftool", "fftool_tri"},
                    [1..NAtom -> {"CA", "CB", "XX"}], {<<>>},
                    {[BaseFF EXCEPT !.atom = t] :
                         t \in Tables(AtomUniverse, MaxTpl)},
                    {154}, {95})
    /\ InitSysIdle

(* bond records for the inference of bonds: no record for the type B-B *)
ConnUniverse ==
    {FFBond("A", "A", 153, 1000), FFBond("A", "B", 153, 1100),
     FFBond("B", "A", 118, 1200)}
(* the tables of at most max records of U that hold no record twice *)
TablesOnce(U, max) ==
    {t \in Tables(U, max) : \A a, b \in DOMAIN t : a # b => t[a] # t[b]}
(* the first m atoms are named CA, the others CB *)
NamesAB(natom) ==
    {[n \in 1..natom |-> IF n <= m THEN "CA" ELSE "CB"] : m \in 1..natom}
(* molecules of NAtom atoms without bond records, every pair of atoms at   *)
(* 1.54 or 1.20 Angstrom, the first pair also at 1.78 Angstrom, which is   *)
(* 1.53 + BondTol; next to them one molecule with bond records             *)
InitConnect ==
    /\ \/ /\ InitGuess({"fftool", "fftool_tri"}, NamesAB(NAtom), {<<>>},
                      {[BaseFF EXCEPT !.bond = t] :
                           t \in TablesOnce(ConnUniverse, MaxTpl)},
                      Dists \cup {178}, {95})
          /\ \A p \in AllPairs(NAtom) : p # {0, 1} => geom.r[p] \in Dists
       \/ InitMol({"fftool"}, NamesAB(NAtom), {Chain(NAtom)}, {<<>>},
                  {BaseFF}, {154}, {95})
    /\ InitSysIdle

(* bond tables that list a bond type twice or under both orderings: one    *)
(* or two records, the same record twice included, and B-A in tolerance    *)
(* of the same distances as A-B; the molecules have three atoms            *)
TwiceUniverse ==
    {FFBond("A", "A", 153, 1000), FFBond("A", "B", 153, 1100),
     FFBond("B", "A", 150, 1200)}
TwiceTables ==
    {<<a>> : a \in TwiceUniverse} \cup {<<a, b>> : a, b \in TwiceUniverse}
InitConnectTwice ==
    /\ InitGuess({"fftool", "fftool_tri"},
                 {<<"CA", "CA", "CA">>, <<"CA", "CA", "CB">>,
                  <<"CA", "CB", "CB">>},
                 {<<>>},
                 {[BaseFF EXCEPT !.bond = t] : t \in TwiceTables},
                 Dists, {95})
    /\ InitSysIdle

(* connectivity followed by anglesdiheds *)
NextConnectivity == ConnectivityAtoms \/ ConnectivityBonds

SpecConnectTwice == InitConnectTwice /\ [][NextConnectivity]_vars

(* the bond lists of at most max bonds over natom atoms with no self-bond  *)
(* and no atom pair twice, each bond in either orientation, in any order   *)
OrientedPairs(natom) ==
    {<<i, j>> : i, j \in 0..(natom - 1)} \ {<<i, i>> : i \in 0..(natom - 1)}
BondLists(natom, max) ==
    {t \in Tables(OrientedPairs(natom), max) :
        \A a, b \in DOMAIN t : a # b => {t[a][1], t[a][2]} # {t[b][1], t[b][2]}}
(* a star written from the centre outwards *)
StarOut(n) == [i \in 1..(n - 1) |-> <<0, i>>]
(* molecules of NAtom + 1 atoms with every bond list of at most NAtom      *)
(* bonds, and stars of NAtom + 2 atoms with and without improper records   *)
InitBondLists ==
    /\ \/ InitMol({"fftool"}, {[n \in 1..(NAtom + 1) |-> "CA"]},
                  BondLists(NAtom + 1, NAtom), {<<>>}, {BaseFF}, {154}, {95})
       \/ InitMol({"fftool", "fftool_tri"}, {[n \in 1..(NAtom + 2) |-> "CA"]},
                  {Star(NAtom + 2), StarOut(NAtom + 2), Star(NAtom + 1),
                   Chain(NAtom + 2)},
                  Tables(ImproperRecords, MaxImproper), {BaseFF},
                  {154}, {95})
    /\ InitSysIdle

(* a database with a second record for the name CA and for the types A-B,  *)
(* A-A-B and A-A-A-B, the latter three under the other ordering            *)
TwiceFF ==
    [BaseFF EXCEPT
        !.atom = <<FFAtom("CA", "B", 2, <<4, 1>>)>> \o BaseAtoms,
        !.bond = BaseBonds \o <<FFBond("B", "A", 118, 1200)>>,
        !.angle = BaseAngles \o <<FFAngle("B", "A", "A", 100, 560)>>,
        !.dihed = BaseDiheds \o <<FFDihed("B", "A", "A", "A", 3)>>]
(* chains matched against force fields with one table, of atoms, bonds,    *)
(* angles or dihedrals, drawn from all tables of at most MaxTpl records,   *)
(* records that match the same name or type among them                     *)
InitLast ==
    /\ \/ InitMol({"fftool", "fftool_tri"}, [1..NAtom -> {"CA", "CB"}],
                  {Chain(NAtom)}, {<<>>},
                  {[BaseFF EXCEPT !.atom = t] :
                       t \in Tables(AtomUniverse, MaxTpl)},
                  {154}, {95})
       \/ InitMol({"fftool"}, NamesAB(NAtom), {Chain(NAtom)}, {<<>>},
                  {[BaseFF EXCEPT !.bond = BaseBonds \o t] :
                       t \in Tables(BondUniverse, MaxTpl)},
                  {154}, {95})
       \/ InitMol({"fftool"}, NamesAB(NAtom + 1), {Chain(NAtom + 1)}, {<<>>},
                  {[BaseFF EXCEPT !.angle = t] :
                       t \in Tables(AngleUniverse, MaxTpl)},
                  {154}, {95})
       \/ InitMol({"fftool"}, NamesAB(NAtom + 2), {Chain(NAtom + 2)}, {<<>>},
                  {[BaseFF EXCEPT !.dihed = t] :
                       t \in Tables(DihedUniverse, MaxTpl)},
                  {154}, {95})
       \/ InitMol({"fftool", "fftool_tri"}, NamesAB(NAtom + 2),
                  {Chain(NAtom + 2)}, {<<>>}, {TwiceFF}, {154}, {95})
    /\ InitSysIdle

(* chains of NAtom + 2 atoms matched against every dihedral table of at    *)
(* most MaxTpl records, with a complete or an incomplete angle table       *)
InitDiheds ==
    /\ InitMol({"fftool", "fftool_tri"}, [1..(NAtom + 2) -> {"CA", "CB"}],
               {Chain(NAtom + 2)}, {<<>>},
               {[BaseFF EXCEPT !.dihed = t, !.angle = a] :
                    t \in Tables(DihedUniverse, MaxTpl),
                    a \in {BaseAngles, << FFAngle("A", "A", "A", 109, 500) >>}},
               {154}, {95})
    /\ InitSysIdle

(* stars of five atoms with at most MaxImproper improper records in the    *)
(* file, matched against every improper table of at most MaxTpl records    *)
InitImpropers ==
    /\ InitMol({"fftool", "fftool_tri"},
               {<<"CA", x, y, "CA", "CA">> : x, y \in {"CA", "CB"}},
               {Star(5)}, Tables(ImproperRecords, MaxImproper),
               {[BaseFF EXCEPT !.dimpr = t] :
                    t \in Tables(ImproperUniverse, MaxTpl)},
               {154}, {95})
    /\ InitSysIdle

InitTerms == InitDiheds \/ InitImpropers

(* one improper over four atoms named in every way from CA, CB and CC,     *)
(* with CA or CB in the centre, and an improper table of one record        *)
InitImproper ==
    /\ InitMol({"fftool", "fftool_tri"},
               {<<c, x, y, z>> : c \in {"CA", "CB"},
                                x, y, z \in {"CA", "CB", "CC"}},
               {Star(4)}, {<< <<1, 2, 0, 3>> >>},
               {[BaseFF EXCEPT !.atom = AtomsABC, !.bond = BondsABC,
                               !.dimpr = << t >>] : t \in ImpropersABC},
               {154}, {95})
    /\ InitSysIdle

(* the molecules and improper tables above, and one improper matched       *)
(* against every table of two records over the labels A, B and C           *)
InitImproperTables ==
    \/ InitImpropers
    \/ InitImproper
    \/ /\ InitMol({"fftool", "fftool_tri"},
                   {<<"CA", "CB", "CC", "CA">>, <<"CB", "CA", "CB", "CC">>},
                   {Star(4)}, {<< <<1, 2, 0, 3>> >>},
                   {[BaseFF EXCEPT !.atom = AtomsABC, !.bond = BondsABC,
                                   !.dimpr = <<t, u>>] :
                        t, u \in ImpropersABC},
                   {154}, {95})
       /\ InitSysIdle

(* molecule files of five atoms, 1, 2, 3 bonded to 0 and 4 to 1, so that   *)
(* there are bonds, angles, dihedrals and an improper; in the second and   *)
(* third database the atom CB has another potential or a longer parameter  *)
(* list; the last file names no force field                                *)
Branch == << <<1, 0>>, <<2, 0>>, <<3, 0>>, <<4, 1>> >>
FFABC == [BaseFF EXCEPT !.atom = AtomsABC, !.bond = BondsABC]
NoFF == [atom |-> <<>>, bond |-> <<>>, angle |-> <<>>, dihed |-> <<>>,
         dimpr |-> <<>>]
SysFFs ==
    {FFABC,
     [FFABC EXCEPT !.atom[2] = FFAtomPot("CB", "B", -1, "buck", <<1, 2, 3>>)],
     [FFABC EXCEPT !.atom[2] = FFAtom("CB", "B", -1, <<36, 9, 0>>)],
     NoFF}
SysNames ==
    {[i \in 1..5 |-> "CA"], [i \in 1..5 |-> "CB"],
     [i \in 1..5 |-> IF i = 1 THEN "CA" ELSE "CB"],
     [i \in 1..5 |-> IF i = 1 THEN "CB" ELSE "CC"]}
SysFiles ==
    {[names |-> nm,
      inp |-> [ff |-> f # NoFF, bond |-> Branch, improper |-> <<>>],
      geom |-> [r |-> [b \in BondPairs(Branch) |-> 154],
                th |-> [a \in AngleKeys(Branch, 5) |-> 95]],
      ff |-> f] : nm \in SysNames, f \in SysFFs}

(* the first molecule file has been opened; the mixing rule is an option   *)
InitSystem ==
    /\ prog \in {"fftool", "fftool_tri"}
    /\ guess = FALSE
    /\ \E m \in SysFiles :
          /\ atom = [n \in 1..Len(m.names) |-> NewAtom(m.names[n])]
          /\ inp = m.inp
          /\ geom = m.geom
          /\ ff = m.ff
    /\ bond = <<>> /\ angle = <<>> /\ dihed = <<>> /\ dimpr = <<>>
    /\ pc = "topology"
    /\ toremove = [an |-> <<>>, dh |-> <<>>, di |-> <<>>, dup |-> {}]
    /\ miss = [an |-> <<>>, dh |-> <<>>, di |-> <<>>]
    /\ log = {}
    /\ pre = [bond |-> <<>>, angle |-> <<>>, dihed |-> <<>>, dimpr |-> <<>>]
    /\ spec = <<>>
    /\ tables = [atom |-> <<>>, bond |-> <<>>, angle |-> <<>>,
                 dihed |-> <<>>, dimpr |-> <<>>]
    /\ vdw = <<>>
    /\ mix \in {"g", "a", "x"}

NextSetff ==
    \/ TopologyFromFile
    \/ SetffAtoms
    \/ SetffBonds
    \/ SetffAngles
    \/ SetffDiheds
    \/ SetffDimprs
    \/ SetffDuplicates

Next == NextSetff

(* the molecule file is read and the topology built *)
NextFromFile == TopologyFromFile

NextMol ==
    \/ ConnectivityAtoms
    \/ ConnectivityBonds
    \/ NextSetff

NextSystem ==
    \/ NextSetff
    \/ ReadNextMol(SysFiles, MaxSpec)
    \/ StartSystem
    \/ SystemBuildTypes
    \/ SystemAssignTypes
    \/ SystemVdw

Spec == Init /\ [][Next]_vars
SpecAngles == InitAngles /\ [][Next]_vars
SpecAtoms == InitAtoms /\ [][NextMol]_vars
SpecConnect == InitConnect /\ [][NextMol]_vars
SpecLast == InitLast /\ [][Next]_vars
SpecBondLists == InitBondLists /\ [][NextFromFile]_vars
SpecTerms == InitTerms /\ [][Next]_vars
SpecImproper == InitImproper /\ [][Next]_vars
SpecImproperTables == InitImproperTables /\ [][Next]_vars
SpecSystem == InitSystem /\ [][NextSystem]_vars

----------------------------------------------------------------------------
(* mol.zmat2cart: the atoms are placed from the records of the z-matrix.   *)
(* The arithmetic is that of the real numbers on inputs for which every    *)
(* square root, quotient, sine and cosine the method takes is rational     *)
(* with denominator 1 or 5: lengths are integers (Angstrom), angles are    *)
(* 0, 90, 180, 270 degrees and 53, 127, which stand for arccos(3/5) and    *)
(* arccos(-3/5).  Rounding of the floating-point operations is not         *)
(* modelled.                                                               *)

(* atom.__init__ with the coordinates it sets *)
NewAtomXYZ(name) ==
    [name |-> name, type |-> "", q |-> 0, pot |-> "", par |-> <<>>,
     m |-> 0, ityp |-> -1, x |-> 0, y |-> 0, z |-> 0]

(* five times math.cos, math.sin of an angle in degrees; math.acos of c/5 *)
Cos5(a) ==
    CASE a = 0 -> 5 [] a = 90 -> 0 [] a = 180 -> -5 [] a = 270 -> 0
      [] a = 53 -> 3 [] a = 127 -> -3
Sin5(a) ==
    CASE a = 0 -> 0 [] a = 90 -> 5 [] a = 180 -> 0 [] a = 270 -> -5
      [] a = 53 -> 4 [] a = 127 -> 4
Acos5(c) ==
    CASE c = 5 -> 0 [] c = 0 -> 90 [] c = -5 -> 180
      [] c = 3 -> 53 [] c = -3 -> 127

(* a / b where it is an integer *)
Div(a, b) == CHOOSE q \in (-Abs(a))..Abs(a) : q * b = a

(* class vector: subtraction, addition, product with a number, cross       *)
(* product, abs, and v.unit() * s                                          *)
VSub(u, v) == <<u[1] - v[1], u[2] - v[2], u[3] - v[3]>>
VAdd(u, v) == <<u[1] + v[1], u[2] + v[2], u[3] + v[3]>>
VMul(u, c) == <<u[1] * c, u[2] * c, u[3] * c>>
VCross(u, v) ==
    <<u[2] * v[3] - u[3] * v[2], u[3] * v[1] - u[1] * v[3],
      u[1] * v[2] - u[2] * v[1]>>
VDot(u, v) == u[1] * v[1] + u[2] * v[2] + u[3] * v[3]
VAbs(u) == Sqrt(VDot(u, u))
VMulRatio(u, num, den) ==
    <<Div(u[1] * num, den), Div(u[2] * num, den), Div(u[3] * num, den)>>
VUnit(u) == VMulRatio(u, 1, VAbs(u))

(* self.atom[ref - 1]: Python counts a negative index from the end of the  *)
(* list and raises IndexError outside the list; the result is the          *)
(* position of the atom in the list, 0 for IndexError                      *)
AtomAt(ref, natom) ==
    IF ref >= 1 /\ ref <= natom THEN ref
    ELSE IF ref <= 0 /\ ref > -natom THEN natom + ref
    ELSE 0
Pos(atoms, n) == <<atoms[n].x, atoms[n].y, atoms[n].z>>
MoveTo(atoms, n, v) ==
    [atoms EXCEPT ![n].x = v[1], ![n].y = v[2], ![n].z = v[3]]

(* the third atom; raised is TRUE for IndexError and ZeroDivisionError *)
PlaceThird(atoms, zat) ==
    LET r == zat.r
        ir == AtomAt(zat.ir, Len(atoms))
        ia == AtomAt(zat.ia, Len(atoms))
    IN  IF ir = 0 \/ ia = 0 THEN [atom |-> atoms, raised |-> TRUE]
        ELSE LET delx == atoms[ia].x - atoms[ir].x
                 dely == atoms[ia].y - atoms[ir].y
                 n == Sqrt(delx * delx + dely * dely)
             IN  IF n = 0 THEN [atom |-> atoms, raised |-> TRUE]
                 ELSE LET acos == Acos5(Div(5 * delx, n))
                          theta == IF dely < 0 THEN 360 - acos ELSE acos
                          ang == (theta - zat.a) % 360
                      IN  [atom |-> MoveTo(atoms, 3,
                                      <<atoms[ir].x + Div(r * Cos5(ang), 5),
                                        atoms[ir].y + Div(r * Sin5(ang), 5),
                                        0>>),
                           raised |-> FALSE]

(* variant: the out-of-plane displacement has the other sign *)
PlaceNthMirror(atoms, zat, i) ==
    LET ir == AtomAt(zat.ir, Len(atoms))
        ia == AtomAt(zat.ia, Len(atoms))
        id == AtomAt(zat.id, Len(atoms))
    IN  IF ir = 0 \/ ia = 0 \/ id = 0 THEN [atom |-> atoms, raised |-> TRUE]
        ELSE LET BA == zat.r
                 vB == Pos(atoms, ir)
                 vC == Pos(atoms, ia)
                 vD == Pos(atoms, id)
                 vBC == VSub(vC, vB)
                 vCD == VSub(vD, vC)
                 BC == VAbs(vBC)
                 bB == Div(BA * Cos5(zat.a), 5)
                 bA == Div(BA * Sin5(zat.a), 5)
                 aA == Div(bA * Sin5(zat.d), 5)
                 ba == Div(bA * Cos5(zat.d), 5)
                 w == VCross(vCD, vBC)
             IN  IF BC = 0 \/ VAbs(w) = 0
                 THEN [atom |-> atoms, raised |-> TRUE]
                 ELSE LET vb == VSub(vC, VMulRatio(vBC, BC - bB, BC))
                          vn == VUnit(w)
                          u == VCross(vBC, vn)
                          va == VAdd(vb, VMulRatio(u, ba, VAbs(u)))
                          vA == VSub(va, VMul(vn, aA))
                      IN  [atom |-> MoveTo(atoms, i, vA), raised |-> FALSE]
(* the body of "for i in range(3, natom)" for the atom at position i *)
PlaceNth(atoms, zat, i) ==
    LET ir == AtomAt(zat.ir, Len(atoms))
        ia == AtomAt(zat.ia, Len(atoms))
        id == AtomAt(zat.id, Len(atoms))
    IN  IF ir = 0 \/ ia = 0 \/ id = 0 THEN [atom |-> atoms, raised |-> TRUE]
        ELSE LET BA == zat.r
                 vB == Pos(atoms, ir)
                 vC == Pos(atoms, ia)
                 vD == Pos(atoms, id)
                 vBC == VSub(vC, vB)
                 vCD == VSub(vD, vC)
                 BC == VAbs(vBC)
                 bB == Div(BA * Cos5(zat.a), 5)
                 bA == Div(BA * Sin5(zat.a), 5)
                 aA == Div(bA * Sin5(zat.d), 5)
                 ba == Div(bA * Cos5(zat.d), 5)
                 w == VCross(vCD, vBC)
             IN  IF BC = 0 \/ VAbs(w) = 0
                 THEN [atom |-> atoms, raised |-> TRUE]
                 ELSE LET vb == VSub(vC, VMulRatio(vBC, BC - bB, BC))
                          vn == VUnit(w)
                          u == VCross(vBC, vn)
                          va == VAdd(vb, VMulRatio(u, ba, VAbs(u)))
                          vA == VAdd(va, VMul(vn, aA))
                      IN  [atom |-> MoveTo(atoms, i, vA), raised |-> FALSE]

RECURSIVE PlaceLoop(_, _, _)
PlaceLoop(st, zatom, i) ==
    IF i > Len(st.atom) \/ st.raised THEN st
    ELSE PlaceLoop(PlaceNth(st.atom, zatom[i], i), zatom, i + 1)

(* zmat2cart up to the first atom *)
Zmat2cartFirst ==
    /\ pc = "zmat2cart"
    /\ IF Len(atom) # Len(inp.zatom) THEN pc' = "abort" /\ atom' = atom
       ELSE IF Len(atom) = 0 THEN pc' = "placed" /\ atom' = atom
       ELSE /\ atom' = MoveTo(atom, 1, <<0, 0, 0>>)
            /\ pc' = IF Len(atom) = 1 THEN "placed" ELSE "zmat_second"
    /\ UNCHANGED <<prog, guess, bond, angle, dihed, dimpr, ff, inp, geom,
                   toremove, miss, log, pre, sysvars>>

(* the second atom, on the x axis *)
Zmat2cartSecond ==
    /\ pc = "zmat_second"
    /\ atom' = MoveTo(atom, 2, <<inp.zatom[2].r, 0, 0>>)
    /\ pc' = IF Len(atom) = 2 THEN "placed" ELSE "zmat_third"
    /\ UNCHANGED <<prog, guess, bond, angle, dihed, dimpr, ff, inp, geom,
                   toremove, miss, log, pre, sysvars>>

(* the third atom, in the plane xy *)
Zmat2cartThird ==
    /\ pc = "zmat_third"
    /\ LET st == PlaceThird(atom, inp.zatom[3])
       IN  /\ atom' = st.atom
           /\ pc' = IF st.raised THEN "exception"
                    ELSE IF Len(atom) = 3 THEN "placed" ELSE "zmat_loop"
    /\ UNCHANGED <<prog, guess, bond, angle, dihed, dimpr, ff, inp, geom,
                   toremove, miss, log, pre, sysvars>>

(* the loop over the other atoms, and the return *)
Zmat2cartLoop ==
    /\ pc = "zmat_loop"
    /\ LET st == PlaceLoop([atom |-> atom, raised |-> FALSE], inp.zatom, 4)
       IN  /\ atom' = st.atom
           /\ pc' = IF st.raised THEN "exception" ELSE "placed"
    /\ UNCHANGED <<prog, guess, bond, angle, dihed, dimpr, ff, inp, geom,
                   toremove, miss, log, pre, sysvars>>

(* z-matrix files of one to four records.  The second atom is at 3 or 4    *)
(* Angstrom from the first, the third at 4 or 3 Angstrom under 90 degrees, *)
(* so that all distances between the first three atoms are integers; the   *)
(* fourth is at 25 Angstrom.  The references of the third record are the   *)
(* two valid ones, a forward reference, a self reference and reference 0;  *)
(* those of the fourth record are all of 0..4.                             *)
ZRecord(ir, r, ia, a, id, d) ==
    [name |-> "C", ir |-> ir, r |-> r, ia |-> ia, a |-> a, id |-> id, d |-> d]
ZRefs3 == {<<1, 2>>, <<2, 1>>, <<2, 4>>, <<3, 1>>, <<0, 1>>}
ZMatrices ==
    {<< ZRecord(0, 0, 0, 0, 0, 0),
        ZRecord(1, len[1], 0, 0, 0, 0),
        ZRecord(r3[1], len[2], r3[2], 90, 0, 0),
        ZRecord(r4[1], 25, r4[2], a4, r4[3], d4) >> :
        len \in {<<3, 4>>, <<4, 3>>}, r3 \in ZRefs3,
        r4 \in (0..4) \X (0..4) \X (0..4),
        a4 \in {90, 53, 127}, d4 \in {0, 90, 180, 270}}
InitZmat ==
    /\ prog = "fftool"
    /\ guess = FALSE
    /\ \E z \in ZMatrices, n \in 1..4 :
          /\ inp = [ff |-> FALSE, bond |-> <<>>, improper |-> <<>>,
                    zatom |-> SubSeq(z, 1, n)]
          /\ atom = [i \in 1..n |-> NewAtomXYZ(z[i].name)]
    /\ geom = [r |-> <<>>, th |-> <<>>]
    /\ ff = NoFF
    /\ bond = <<>> /\ angle = <<>> /\ dihed = <<>> /\ dimpr = <<>>
    /\ pc = "zmat2cart"
    /\ toremove = [an |-> <<>>, dh |-> <<>>, di |-> <<>>, dup |-> {}]
    /\ miss = [an |-> <<>>, dh |-> <<>>, di |-> <<>>]
    /\ log = {}
    /\ pre = [bond |-> <<>>, angle |-> <<>>, dihed |-> <<>>, dimpr |-> <<>>]
    /\ InitSysIdle

NextZmat ==
    \/ Zmat2cartFirst
    \/ Zmat2cartSecond
    \/ Zmat2cartThird
    \/ Zmat2cartLoop

SpecZmat == InitZmat /\ [][NextZmat]_vars

(* fromzmat after zmat2cart, for a file that names a force field and has   *)
(* no reconnect record: a bond from each atom but the first to the atom of *)
(* its reference ir, a bond for each connect record, an improper for each  *)
(* improper record, all with 1 subtracted from the numbers of the file,    *)
(* and anglesdiheds                                                        *)
ZmatBonds(zatom, connect) ==
    [i \in 1..(Len(zatom) - 1) |-> NewBond(i, zatom[i + 1].ir - 1)]
    \o [n \in 1..Len(connect) |-> NewBond(connect[n][1] - 1, connect[n][2] - 1)]
ZmatImpropers(improper) ==
    [n \in 1..Len(improper) |->
        NewDihed(improper[n][1] - 1, improper[n][2] - 1,
                 improper[n][3] - 1, improper[n][4] - 1)]
FromzmatTopology ==
    /\ pc = "placed"
    /\ inp.ff /\ ~guess
    /\ LET bonds == ZmatBonds(inp.zatom, inp.connect)
           t == AnglesDiheds(bonds, ZmatImpropers(inp.improper), Len(atom))
       IN  /\ bond' = bonds
           /\ angle' = t.angle
           /\ dihed' = t.dihed
           /\ dimpr' = t.dimpr
    /\ pc' = "setff"
    /\ UNCHANGED <<prog, guess, atom, ff, inp, geom, toremove, miss, log,
                   pre, sysvars>>

(* z-matrix files that name a force field: the z-matrices above with the   *)
(* fourth atom under 90 degrees, with no connect record, one that closes a *)
(* ring, one that names atom 0 and one that names atom 5, and with no      *)
(* improper record, one around atom 1 and one that names atom 5            *)
ZConnects == {<<>>, << <<1, 3>> >>, << <<0, 2>> >>, << <<1, 5>> >>}
ZImpropers == {<<>>, << <<2, 3, 1, 4>> >>, << <<5, 2, 1, 3>> >>}
InitFromZmat ==
    /\ prog \in {"fftool", "fftool_tri"}
    /\ guess = FALSE
    /\ \E z \in {m \in ZMatrices : m[2].r = 3 /\ m[4].a = 90 /\ m[4].d = 90},
          n \in 1..4, cn \in ZConnects, di \in ZImpropers :
          /\ inp = [ff |-> TRUE, bond |-> <<>>, improper |-> di,
                    connect |-> cn, zatom |-> SubSeq(z, 1, n)]
          /\ atom = [i \in 1..n |-> NewAtomXYZ(z[i].name)]
    /\ geom = [r |-> <<>>, th |-> <<>>]
    /\ ff = BaseFF
    /\ bond = <<>> /\ angle = <<>> /\ dihed = <<>> /\ dimpr = <<>>
    /\ pc = "zmat2cart"
    /\ toremove = [an |-> <<>>, dh |-> <<>>, di |-> <<>>, dup |-> {}]
    /\ miss = [an |-> <<>>, dh |-> <<>>, di |-> <<>>]
    /\ log = {}
    /\ pre = [bond |-> <<>>, angle |-> <<>>, dihed |-> <<>>, dimpr |-> <<>>]
    /\ InitSysIdle

NextFromZmat == NextZmat \/ FromzmatTopology

SpecFromZmat == InitFromZmat /\ [][NextFromZmat]_vars

----------------------------------------------------------------------------
(* dist2atoms in a periodic cell.  Coordinates and box lengths are         *)
(* integers; the operator below gives the square of the distance, of which *)
(* dist2atoms returns the root.                                            *)

(* cell.__init__ with alpha = beta = gamma = 90, hence cg = 0 and sg = 1:  *)
(* the volume and the box lengths are computed from the arguments b and c, *)
(* not from self.b and self.c; raised stands for the ZeroDivisionError of  *)
(* v / (a*b*sg), 1.0/a and a*b*sg/v                                        *)
NewCell(a, b, c, pbc) ==
    [iscell |-> TRUE, a |-> a, b |-> IF b = 0 THEN a ELSE b, c |-> IF c = 0 THEN a ELSE c,
     triclinic |-> FALSE, pbc |-> pbc, vol |-> a * b * c,
     lx |-> a, ly |-> b, lz |-> IF a * b = 0 THEN 0 ELSE Div(a * b * c, a * b),
     raised |-> a * b * c = 0]

(* box = None; iscell is isinstance(box, cell) *)
NoBox == [iscell |-> FALSE, pbc |-> {}, lx |-> 0, ly |-> 0, lz |-> 0]

(* variant: the quotient is truncated towards zero *)
PyRoundTrunc(n, d, mode) == IF n >= 0 THEN n \div d ELSE -((-n) \div d)
(* round(n / d) for d > 0: to the nearest integer, a tie going to the even *)
(* integer (Python 3) or away from zero (Python 2)                         *)
PyRound(n, d, mode) ==
    LET q == n \div d
        rem == n % d
    IN  IF 2 * rem < d THEN q
        ELSE IF 2 * rem > d THEN q + 1
        ELSE IF mode = "even" THEN (IF q % 2 = 0 THEN q ELSE q + 1)
        ELSE (IF n >= 0 THEN q + 1 ELSE q)

(* "dx -= round(dx / box.lx) * box.lx" if the axis is periodic *)
MinImage(dl, l, axis, box, mode) ==
    IF axis \in box.pbc THEN dl - PyRound(dl, l, mode) * l ELSE dl

(* dist2atoms for no box or an orthogonal box (box.triclinic is false for  *)
(* every cell built here), squared                                         *)
Dist2atomsSquared(ati, atj, box, mode) ==
    LET dx == atj.x - ati.x
        dy == atj.y - ati.y
        dz == atj.z - ati.z
        wx == IF ~box.iscell THEN dx ELSE MinImage(dx, box.lx, "x", box, mode)
        wy == IF ~box.iscell THEN dy ELSE MinImage(dy, box.ly, "y", box, mode)
        wz == IF ~box.iscell THEN dz ELSE MinImage(dz, box.lz, "z", box, mode)
    IN  wx * wx + wy * wy + wz * wz

(* the distances of all pairs of atoms are measured *)
MeasureDistances ==
    /\ pc = "measure"
    /\ geom' = [r |-> [p \in AllPairs(Len(atom)) |->
                         LET i == Min(p)
                             j == CHOOSE x \in p : x # i
                         IN  Dist2atomsSquared(atom[i + 1], atom[j + 1],
                                               inp.box, inp.round)],
                th |-> <<>>]
    /\ pc' = "measured"
    /\ UNCHANGED <<prog, guess, atom, bond, angle, dihed, dimpr, ff, inp,
                   toremove, miss, log, pre, sysvars>>

(* Four atoms in a box: p, q, q moved by one box length along an axis, and *)
(* p moved by one box length the other way along the same axis.  The box   *)
(* is 4 x 5 x 6 or 4 x 4 x 6 with any set of periodic axes, or absent.     *)
AtomXYZ(v) == [NewAtomXYZ("C") EXCEPT !.x = v[1], !.y = v[2], !.z = v[3]]
Axes == {"x", "y", "z"}
AxisVec(axis, l) ==
    IF axis = "x" THEN <<l, 0, 0>>
    ELSE IF axis = "y" THEN <<0, l, 0>> ELSE <<0, 0, l>>
BoxLen(box, axis) ==
    IF axis = "x" THEN box.lx ELSE IF axis = "y" THEN box.ly ELSE box.lz
Boxes ==
    {NewCell(4, b, 6, pbc) : b \in {4, 5}, pbc \in SUBSET Axes}
InitBox ==
    /\ prog = "fftool"
    /\ guess = FALSE
    /\ \E box \in Boxes \cup {NoBox}, axis \in Axes, sgn \in {-1, 1},
          p \in {<<0, 0, 0>>, <<1, -2, 0>>},
          q \in (-3..3) \X {-2, 0, 2} \X {0, 3},
          mode \in {"even", "away"} :
          LET shift == VMul(AxisVec(axis, IF box.iscell
                                                THEN BoxLen(box, axis)
                                                ELSE 4), sgn)
          IN  /\ atom = <<AtomXYZ(p), AtomXYZ(q), AtomXYZ(VAdd(q, shift)),
                          AtomXYZ(VSub(p, shift))>>
              /\ inp = [ff |-> FALSE, bond |-> <<>>, improper |-> <<>>,
                        box |-> box, round |-> mode, axis |-> axis]
    /\ geom = [r |-> <<>>, th |-> <<>>]
    /\ ff = NoFF
    /\ bond = <<>> /\ angle = <<>> /\ dihed = <<>> /\ dimpr = <<>>
    /\ pc = "measure"
    /\ toremove = [an |-> <<>>, dh |-> <<>>, di |-> <<>>, dup |-> {}]
    /\ miss = [an |-> <<>>, dh |-> <<>>, di |-> <<>>]
    /\ log = {}
    /\ pre = [bond |-> <<>>, angle |-> <<>>, dihed |-> <<>>, dimpr |-> <<>>]
    /\ InitSysIdle

NextBox == MeasureDistances

SpecBox == InitBox /\ [][NextBox]_vars

----------------------------------------------------------------------------
(* class cell with its six lattice parameters.  The numbers are rationals  *)
(* <<n, d>> in lowest terms with d > 0; the cosine and the sine of an      *)
(* angle are those of Cos5 and Sin5, which round(., NDIG) leaves rational. *)

RECURSIVE Gcd(_, _)
Gcd(a, b) == IF b = 0 THEN a ELSE Gcd(b, a % b)
Rat(n, d) ==
    LET g == Gcd(Abs(n), Abs(d))
        sgn == IF d < 0 THEN -1 ELSE 1
    IN  <<(sgn * n) \div g, (sgn * d) \div g>>
RI(n) == <<n, 1>>
RZero == RI(0)
RAdd(p, q) == Rat(p[1] * q[2] + q[1] * p[2], p[2] * q[2])
RSub(p, q) == Rat(p[1] * q[2] - q[1] * p[2], p[2] * q[2])
RMul(p, q) == Rat(p[1] * q[1], p[2] * q[2])
RNeg(p) == <<-p[1], p[2]>>
(* p / q for q # 0 *)
RDiv(p, q) == Rat(p[1] * q[2], p[2] * q[1])
(* math.sqrt of a rational whose root is rational *)
RSqrt(p) == <<Sqrt(p[1]), Sqrt(p[2])>>

CosR(a) == Rat(Cos5(a), 5)
SinR(a) == Rat(Sin5(a), 5)

(* variant: only alpha is compared with 90 *)
TriclinicAlphaOnly(alpha, beta, gamma) == alpha # 90
(* "if alpha != 90.0 or beta != 90.0 or gamma != 90.0" *)
Triclinic(alpha, beta, gamma) == alpha # 90 \/ beta # 90 \/ gamma # 90

(* the argument of math.sqrt in the volume *)
VolRadicand(ca, cb, cg) ==
    RAdd(RSub(RSub(RSub(RI(1), RMul(ca, ca)), RMul(cb, cb)), RMul(cg, cg)),
         RMul(RI(2), RMul(ca, RMul(cb, cg))))

(* cell.__init__ where no division is by zero: self.b and self.c take a    *)
(* for an argument of 0, and the volume, both matrices, the box sizes and  *)
(* the tilt factors are computed from the arguments a, b, c themselves.    *)
Cell(a, b, c, alpha, beta, gamma, pbc) ==
    LET ca == CosR(alpha)
        cb == CosR(beta)
        cg == CosR(gamma)
        sg == SinR(gamma)
        ra == RI(a)
        rb == RI(b)
        rc == RI(c)
        v  == RMul(RI(a * b * c), RSqrt(VolRadicand(ca, cb, cg)))
        yz == RDiv(RMul(rc, RSub(ca, RMul(cb, cg))), sg)
        lz == RDiv(v, RMul(RI(a * b), sg))
    IN  [iscell |-> TRUE, a |-> a,
         b |-> IF b = 0 THEN a ELSE b, c |-> IF c = 0 THEN a ELSE c,
         alpha |-> alpha, beta |-> beta, gamma |-> gamma,
         triclinic |-> Triclinic(alpha, beta, gamma),
         pbc |-> pbc, vol |-> v,
         ftocmat |-> << <<ra, RMul(rb, cg), RMul(rc, cb)>>,
                        <<RZero, RMul(rb, sg), yz>>,
                        <<RZero, RZero, lz>> >>,
         ctofmat |-> << <<RDiv(RI(1), ra), RDiv(RNeg(cg), RMul(ra, sg)),
                          RDiv(RMul(RI(b * c), RSub(RMul(ca, cg), cb)),
                               RMul(v, sg))>>,
                        <<RZero, RDiv(RI(1), RMul(rb, sg)),
                          RDiv(RMul(RI(a * c), RSub(RMul(cb, cg), ca)),
                               RMul(v, sg))>>,
                        <<RZero, RZero, RDiv(RMul(RI(a * b), sg), v)>> >>,
         lx |-> ra, xy |-> RMul(rb, cg), xz |-> RMul(rc, cb),
         ly |-> RMul(rb, sg), yz |-> yz, lz |-> lz]

(* the divisors of cell.__init__: one of them is zero exactly when a, b or *)
(* the volume is (sg is not zero for the angles of the model)              *)
CellDivisors(a, b, c, alpha, beta, gamma) ==
    LET sg == SinR(gamma)
        v  == RMul(RI(a * b * c),
                   RSqrt(VolRadicand(CosR(alpha), CosR(beta), CosR(gamma))))
    IN  {sg, RMul(RI(a * b), sg), RI(a), RMul(RI(a), sg), RMul(v, sg),
         RMul(RI(b), sg), v}

(* "sum(a*b for a,b in zip(row, x))" over the rows of a matrix *)
MatVec(mat, x) ==
    [r \in 1..3 |-> RAdd(RAdd(RMul(mat[r][1], x[1]), RMul(mat[r][2], x[2])),
                         RMul(mat[r][3], x[3]))]
ctofByFtocmat(box, x) == MatVec(box.ftocmat, x)
ftoc(box, x) == MatVec(box.ftocmat, x)
ctof(box, x) == MatVec(box.ctofmat, x)

(* box = cell(a, b, c, alpha, beta, gamma, pbc): a ZeroDivisionError leaves *)
(* no cell                                                                 *)
CellInit ==
    /\ pc = "cell_init"
    /\ IF RZero \in CellDivisors(inp.a, inp.b, inp.c,
                                 inp.alpha, inp.beta, inp.gamma)
       THEN /\ pc' = "exception"
            /\ UNCHANGED geom
       ELSE /\ pc' = "cell"
            /\ geom' = [geom EXCEPT !.box = Cell(inp.a, inp.b, inp.c, inp.alpha,
                                                 inp.beta, inp.gamma, inp.pbc)]
    /\ UNCHANGED <<prog, guess, atom, bond, angle, dihed, dimpr, ff, inp,
                   toremove, miss, log, pre, sysvars>>

(* xc = box.ftoc(x) *)
CallFtoc ==
    /\ pc = "cell"
    /\ geom' = [geom EXCEPT !.xc = ftoc(geom.box, inp.x)]
    /\ pc' = "cartesian"
    /\ UNCHANGED <<prog, guess, atom, bond, angle, dihed, dimpr, ff, inp,
                   toremove, miss, log, pre, sysvars>>

(* xf = box.ctof(xc) *)
CallCtof ==
    /\ pc = "cartesian"
    /\ geom' = [geom EXCEPT !.xf = ctof(geom.box, geom.xc)]
    /\ pc' = "fractional"
    /\ UNCHANGED <<prog, guess, atom, bond, angle, dihed, dimpr, ff, inp,
                   toremove, miss, log, pre, sysvars>>

(* The cells: edges a of 2 or 3, b and c given or left at 0, the angles    *)
(* 90 or one of them 53 or 127 (cosine 3/5 or -3/5), and a vector of       *)
(* fractional coordinates.                                                 *)
CellAngles ==
    {t \in {90, 53, 127} \X {90, 53, 127} \X {90, 53, 127} :
        Cardinality({n \in 1..3 : t[n] # 90}) <= 1}
CellEdges == {2, 3} \X {0, 2, 5} \X {0, 3, 4}
FracCoords == {RI(0), Rat(1, 2), RI(-2)}
InitCell ==
    /\ prog \in {"fftool", "fftool_tri"}
    /\ guess = FALSE
    /\ atom = <<>>
    /\ \E e \in CellEdges, t \in CellAngles,
          x \in FracCoords \X FracCoords \X FracCoords :
          inp = [ff |-> FALSE, bond |-> <<>>, improper |-> <<>>,
                 a |-> e[1], b |-> e[2], c |-> e[3],
                 alpha |-> t[1], beta |-> t[2], gamma |-> t[3],
                 pbc |-> {"x", "y", "z"}, x |-> x]
    /\ geom = [r |-> <<>>, th |-> <<>>, box |-> NoBox, xc |-> <<>>, xf |-> <<>>]
    /\ ff = NoFF
    /\ bond = <<>> /\ angle = <<>> /\ dihed = <<>> /\ dimpr = <<>>
    /\ pc = "cell_init"
    /\ toremove = [an |-> <<>>, dh |-> <<>>, di |-> <<>>, dup |-> {}]
    /\ miss = [an |-> <<>>, dh |-> <<>>, di |-> <<>>]
    /\ log = {}
    /\ pre = [bond |-> <<>>, angle |-> <<>>, dihed |-> <<>>, dimpr |-> <<>>]
    /\ InitSysIdle

NextCell == CellInit \/ CallFtoc \/ CallCtof

SpecCell == InitCell /\ [][NextCell]_vars

----------------------------------------------------------------------------
(* angle3atoms for no box or an orthogonal box, on integer coordinates     *)
(* whose difference vectors have integer lengths and a cosine that is a    *)
(* multiple of 1/5.                                                        *)

(* the difference vector after "d -= round(d / box.l) * box.l" per axis *)
MinImageVec(d, box, mode) ==
    IF ~box.iscell THEN d
    ELSE <<MinImage(d[1], box.lx, "x", box, mode),
           MinImage(d[2], box.ly, "y", box, mode),
           MinImage(d[3], box.lz, "z", box, mode)>>

(* the two difference vectors vji and vjk of angle3atoms *)
AngleVectors(ati, atj, atk, box, mode) ==
    [ji |-> MinImageVec(<<ati.x - atj.x, ati.y - atj.y, ati.z - atj.z>>,
                        box, mode),
     jk |-> MinImageVec(<<atk.x - atj.x, atk.y - atj.y, atk.z - atj.z>>,
                        box, mode)]

(* "math.acos((vji * vjk) / (abs(vji) * abs(vjk))) * 180.0 / math.pi":     *)
(* the division raises ZeroDivisionError when a vector has length zero     *)
Angle3atoms(ati, atj, atk, box, mode) ==
    LET v == AngleVectors(ati, atj, atk, box, mode)
        den == VAbs(v.ji) * VAbs(v.jk)
    IN  IF den = 0 THEN [raised |-> TRUE, th |-> 0]
        ELSE [raised |-> FALSE,
              th |-> Acos5(Div(5 * VDot(v.ji, v.jk), den))]

(* th = angle3atoms(atom[0], atom[1], atom[2], box) *)
MeasureAngle ==
    /\ pc = "measure_angle"
    /\ LET res == Angle3atoms(atom[1], atom[2], atom[3], inp.box, inp.round)
       IN  IF res.raised
           THEN /\ pc' = "exception"
                /\ UNCHANGED geom
           ELSE /\ pc' = "angle_measured"
                /\ geom' = [geom EXCEPT !.th = res.th]
    /\ UNCHANGED <<prog, guess, atom, bond, angle, dihed, dimpr, ff, inp,
                   toremove, miss, log, pre, sysvars>>

(* Three atoms: the centre q and two atoms at q + u and q + w, with u and  *)
(* w zero, of length 5, or one box length along x; the box is absent or    *)
(* 12 x 12 x 12 with no periodic axis, x, or all three.                    *)
AngleArms ==
    {<<0, 0, 0>>, <<5, 0, 0>>, <<-5, 0, 0>>, <<3, 4, 0>>, <<0, 0, 5>>,
     <<12, 0, 0>>}
AngleBoxes == {NoBox} \cup {NewCell(12, 12, 12, pbc) : pbc \in {{}, {"x"}, Axes}}
InitAngle3 ==
    /\ prog \in {"fftool", "fftool_tri"}
    /\ guess = FALSE
    /\ \E q \in {<<0, 0, 0>>, <<1, -2, 0>>}, u \in AngleArms, w \in AngleArms,
          box \in AngleBoxes, mode \in {"even", "away"} :
          /\ atom = <<AtomXYZ(VAdd(q, u)), AtomXYZ(q), AtomXYZ(VAdd(q, w))>>
          /\ inp = [ff |-> FALSE, bond |-> <<>>, improper |-> <<>>,
                    box |-> box, round |-> mode]
    /\ geom = [r |-> <<>>, th |-> -1]
    /\ ff = NoFF
    /\ bond = <<>> /\ angle = <<NewAngle(0, 1, 2)>> /\ dihed = <<>> /\ dimpr = <<>>
    /\ pc = "measure_angle"
    /\ toremove = [an |-> <<>>, dh |-> <<>>, di |-> <<>>, dup |-> {}]
    /\ miss = [an |-> <<>>, dh |-> <<>>, di |-> <<>>]
    /\ log = {}
    /\ pre = [bond |-> <<>>, angle |-> <<>>, dihed |-> <<>>, dimpr |-> <<>>]
    /\ InitSysIdle

NextAngle3 == MeasureAngle

SpecAngle3 == InitAngle3 /\ [][NextAngle3]_vars

----------------------------------------------------------------------------
(* Properties.  The force-field records that fit a term are found here by  *)
(* comparing type labels position by position, the measured values are     *)
(* read from the geometry, and the terms of the molecule file are those    *)
(* recorded when setff was entered.                                        *)

TypeOf(i) == atom[i + 1].type

AtomHasRecord(n) == \E k \in 1..Len(ff.atom) : ff.atom[k].name = atom[n].name
AllAtomsResolved == \A n \in 1..Len(atom) : AtomHasRecord(n)

BondFits(t, b) ==
    \/ t.iatp = TypeOf(b.i) /\ t.jatp = TypeOf(b.j)
    \/ t.iatp = TypeOf(b.j) /\ t.jatp = TypeOf(b.i)
BondHasTemplate(b) == \E k \in 1..Len(ff.bond) : BondFits(ff.bond[k], b)
AllBondsMatched == \A n \in 1..Len(pre.bond) : BondHasTemplate(pre.bond[n])

AngleFits(t, a) ==
    /\ t.jatp = TypeOf(a.j)
    /\ \/ t.iatp = TypeOf(a.i) /\ t.katp = TypeOf(a.k)
       \/ t.iatp = TypeOf(a.k) /\ t.katp = TypeOf(a.i)
AngleHasTemplate(a) == \E k \in 1..Len(ff.angle) : AngleFits(ff.angle[k], a)

(* setff has left the loop over the bonds / the angles without exiting *)
PastBonds == pc \in {"angles", "diheds", "dimprs", "duplicates", "done"}
PastAngles == pc \in {"diheds", "dimprs", "duplicates", "done"}

(* a bond template that fits bond b but is out of tolerance for its length *)
BondOutOfTol(b) ==
    \E k \in 1..Len(ff.bond) :
        /\ BondFits(ff.bond[k], b)
        /\ Abs(geom.r[{b.i, b.j}] - ff.bond[k].par[1]) >= BondTol

(* an angle template that fits angle a but is out of tolerance for it *)
AngleOutOfTol(a) ==
    \E k \in 1..Len(ff.angle) :
        /\ AngleFits(ff.angle[k], a)
        /\ Abs(geom.th[<<a.j, {a.i, a.k}>>] - ff.angle[k].par[1]) >= AngleTol

Atoms3(a) == <<a.i, a.j, a.k>>
Atoms4(d) == <<d.i, d.j, d.k, d.l>>

(* C1: an angle that fits an angle template but whose measured value is    *)
(* not within AngleTol of that template's equilibrium value is no longer   *)
(* in the angle list once the angles have been matched, and setff has not  *)
(* exited: it exits only for an atom or a bond without parameters.         *)
C1_AngleOutOfToleranceRemoved ==
    /\ PastAngles /\ inp.ff =>
          \A n \in 1..Len(pre.angle) :
              AngleOutOfTol(pre.angle[n]) =>
                  \A m \in 1..Len(angle) :
                      Atoms3(angle[m]) # Atoms3(pre.angle[n])
    /\ pc = "abort" => ~AllAtomsResolved \/ ~AllBondsMatched

C1_Witness ==
    /\ pc = "done"
    /\ \E n \in 1..Len(pre.angle) : AngleOutOfTol(pre.angle[n])
    /\ Len(angle) >= 1
    /\ Len(angle) < Len(pre.angle)

(* C2: a bond that fits a bond template but whose measured length is       *)
(* outside BondTol of the template's equilibrium value is still at its     *)
(* place in the bond list after the bonds were matched, carrying the       *)
(* potential and parameters of a template that fits it; setff exits only   *)
(* for an atom or a bond without parameters.                               *)
C2_BondOutOfToleranceKept ==
    /\ PastBonds /\ inp.ff =>
          \A n \in 1..Len(pre.bond) :
              BondOutOfTol(pre.bond[n]) =>
                  /\ Len(bond) = Len(pre.bond)
                  /\ bond[n].i = pre.bond[n].i
                  /\ bond[n].j = pre.bond[n].j
                  /\ \E k \in 1..Len(ff.bond) :
                        /\ BondFits(ff.bond[k], pre.bond[n])
                        /\ bond[n].pot = ff.bond[k].pot
                        /\ bond[n].par = ff.bond[k].par
    /\ pc = "abort" => ~AllAtomsResolved \/ ~AllBondsMatched

C2_Witness ==
    /\ pc = "done"
    /\ inp.ff
    /\ \E n \in 1..Len(pre.bond) :
          BondOutOfTol(pre.bond[n]) /\ <<"warning: bond", n>> \in log

DihedFits(t, d) ==
    \/ /\ t.iatp = TypeOf(d.i) /\ t.jatp = TypeOf(d.j)
       /\ t.katp = TypeOf(d.k) /\ t.latp = TypeOf(d.l)
    \/ /\ t.iatp = TypeOf(d.l) /\ t.jatp = TypeOf(d.k)
       /\ t.katp = TypeOf(d.j) /\ t.latp = TypeOf(d.i)
DihedHasTemplate(d) == \E k \in 1..Len(ff.dihed) : DihedFits(ff.dihed[k], d)

(* the template's outer labels are those of the atoms i, j, l in one of    *)
(* their six orders, and its third label is that of the central atom k     *)
ImproperFits(t, d) ==
    /\ t.katp = TypeOf(d.k)
    /\ \E x, y, z \in {d.i, d.j, d.l} :
          /\ {x, y, z} = {d.i, d.j, d.l}
          /\ t.iatp = TypeOf(x) /\ t.jatp = TypeOf(y) /\ t.latp = TypeOf(z)
ImproperHasTemplate(d) ==
    \E k \in 1..Len(ff.dimpr) : ImproperFits(ff.dimpr[k], d)

(* a term list as the atoms of its terms; an improper as its central atom  *)
(* and the set of the three others, which matching may permute             *)
DihedKeys(list) == [n \in 1..Len(list) |-> Atoms4(list[n])]
ImproperKeys(list) ==
    [n \in 1..Len(list) |-> <<list[n].k, {list[n].i, list[n].j, list[n].l}>>]
AtomSet(d) == {d.i, d.j, d.k, d.l}

RECURSIVE IsSubSeq(_, _)
IsSubSeq(a, b) ==
    IF a = <<>> THEN TRUE
    ELSE IF b = <<>> THEN FALSE
    ELSE IF Head(a) = Head(b) THEN IsSubSeq(Tail(a), Tail(b))
    ELSE IsSubSeq(a, Tail(b))

MatchedDiheds == SelectSeq(pre.dihed, DihedHasTemplate)
MatchedImpropers == SelectSeq(pre.dimpr, ImproperHasTemplate)

(* what C3 says of the angles, the dihedrals and the bonds *)
SoftRemoval ==
    /\ pc = "done" /\ inp.ff =>
          /\ \A n \in 1..Len(pre.angle) :
                ~AngleHasTemplate(pre.angle[n]) =>
                    \A m \in 1..Len(angle) :
                        Atoms3(angle[m]) # Atoms3(pre.angle[n])
          /\ DihedKeys(dihed) = DihedKeys(MatchedDiheds)
          /\ Len(bond) = Len(pre.bond)
          /\ \A n \in 1..Len(bond) :
                bond[n].i = pre.bond[n].i /\ bond[n].j = pre.bond[n].j
    /\ pc = "abort" => ~AllAtomsResolved \/ ~AllBondsMatched

(* C3 as stated: a term that fits no template is removed and setff does    *)
(* not exit for it; when setff has returned the dihedral list and the      *)
(* improper list are the terms that fit a template, in their original      *)
(* order, and every bond is still in the bond list.                        *)
C3_ListsAreTheMatchedTerms ==
    /\ SoftRemoval
    /\ pc = "done" /\ inp.ff =>
          ImproperKeys(dimpr) = ImproperKeys(MatchedImpropers)

(* C3, amended: as above for the angles, the dihedrals and the bonds; the  *)
(* improper list holds only impropers that fit a template, in their        *)
(* original order: all of them in fftool_tri.py, and in fftool.py at least *)
(* the first, the others being subject to the duplicate pass.              *)
C3_ListsAreMatchedTermsUpToDuplicates ==
    /\ SoftRemoval
    /\ pc = "done" /\ inp.ff =>
          /\ IsSubSeq(ImproperKeys(dimpr), ImproperKeys(MatchedImpropers))
          /\ prog = "fftool_tri" =>
                ImproperKeys(dimpr) = ImproperKeys(MatchedImpropers)
          /\ MatchedImpropers # <<>> =>
                /\ dimpr # <<>>
                /\ Head(ImproperKeys(dimpr))
                      = Head(ImproperKeys(MatchedImpropers))

C3_Witness ==
    /\ pc = "done"
    /\ \E n \in 1..Len(pre.dihed) : ~DihedHasTemplate(pre.dihed[n])
    /\ Len(dihed) >= 1
    /\ \E n \in 1..Len(pre.angle) : ~AngleHasTemplate(pre.angle[n])

(* C4: if a bond fits no bond template setff exits and never matches the   *)
(* angles; at the exit every bond without a template has been reported and *)
(* the angle, dihedral and improper lists are as they were on entry.       *)
C4_UnmatchedBondAborts ==
    /\ PastBonds /\ inp.ff => AllBondsMatched
    /\ pc = "abort" /\ AllAtomsResolved =>
          /\ \A n \in 1..Len(pre.bond) :
                ~BondHasTemplate(pre.bond[n]) =>
                    <<"no parameters for bond", n>> \in log
          /\ angle = pre.angle
          /\ dihed = pre.dihed
          /\ dimpr = pre.dimpr

C4_Witness ==
    /\ pc = "abort"
    /\ AllAtomsResolved
    /\ Cardinality({n \in 1..Len(pre.bond) :
                       ~BondHasTemplate(pre.bond[n])}) >= 2
    /\ Len(angle) >= 1

(* C5: an atom whose name no atom record carries makes setff, and          *)
(* connectivity when the bonds are to be inferred, exit: no later loop is  *)
(* entered; at the exit every such atom has been reported, no bond has     *)
(* been inferred and no bond of the file carries parameters.               *)
C5_UnmatchedAtomAborts ==
    /\ inp.ff /\ ~AllAtomsResolved => pc \in {"topology", "setff", "abort"}
    /\ pc = "abort" /\ ~AllAtomsResolved =>
          /\ \A n \in 1..Len(atom) :
                ~AtomHasRecord(n) => <<"no parameters for atom", n>> \in log
          /\ guess => bond = <<>>
          /\ Len(bond) = Len(inp.bond)
          /\ \A n \in 1..Len(bond) : bond[n].pot = "" /\ bond[n].name = ""

C5_Witness ==
    /\ pc = "abort"
    /\ guess
    /\ Cardinality({n \in 1..Len(atom) : ~AtomHasRecord(n)}) >= 2
    /\ \E n \in 1..Len(atom) : AtomHasRecord(n)

(* C6: once the impropers have been matched, the type labels of the atoms  *)
(* at the positions i, j, k, l of every improper left in the list are the  *)
(* labels iatp, jatp, katp, latp of the template it was given.             *)
C6_ImproperAtomsInTemplateOrder ==
    pc \in {"duplicates", "done"} /\ inp.ff =>
        \A n \in 1..Len(dimpr) :
            /\ TypeOf(dimpr[n].i) = dimpr[n].iatp
            /\ TypeOf(dimpr[n].j) = dimpr[n].jatp
            /\ TypeOf(dimpr[n].k) = dimpr[n].katp
            /\ TypeOf(dimpr[n].l) = dimpr[n].latp

(* two impropers over the same four atoms with i and j exchanged *)
MirrorImages(a, b) ==
    a.i = b.j /\ a.j = b.i /\ a.k = b.k /\ a.l = b.l

(* C7: in the duplicate pass of fftool.py an improper is removed only if   *)
(* an improper earlier in the list is over the same four atoms, and no two *)
(* impropers left in the list are mirror images of each other.             *)
C7_OnlyMirrorDuplicatesRemoved ==
    [][pc = "duplicates" =>
          /\ \A j \in toremove'.dup :
                \E i \in 1..(j - 1) : AtomSet(dimpr[i]) = AtomSet(dimpr[j])
          /\ \A a, b \in 1..Len(dimpr') :
                a # b => ~MirrorImages(dimpr'[a], dimpr'[b])]_vars

(* the objects of the species, in the order in which system scans them *)
Places(kind) ==
    UNION {{<<s, n>> : n \in 1..Len(spec[s][kind])} : s \in 1..Len(spec)}
Before(x, y) == x[1] < y[1] \/ (x[1] = y[1] /\ x[2] < y[2])
At(kind, x) == spec[x[1]][kind][x[2]]
Entry(kind, p) == At(kind, <<tables[kind][p].sp, tables[kind][p].n>>)

(* system.__init__ has assigned the type indices *)
PastAssign == pc \in {"vdw", "sys_done", "sys_abort"}

(* C8: once the indices are assigned, in each of the five type tables no   *)
(* two entries have the same name, an entry is the first object of its     *)
(* name in the scan of the species, the entry at position p has ityp = p   *)
(* counted from 0, and every atom and term of every species has the ityp   *)
(* of the table entry with its name.                                       *)
C8_TypeTables ==
    PastAssign =>
        \A kind \in Range(Kinds) :
            LET T == tables[kind]
            IN  /\ \A p, q \in 1..Len(T) :
                      p # q => Entry(kind, p).name # Entry(kind, q).name
                /\ \A p \in 1..Len(T) :
                      /\ <<T[p].sp, T[p].n>> \in Places(kind)
                      /\ \A x \in Places(kind) :
                            Before(x, <<T[p].sp, T[p].n>>) =>
                                At(kind, x).name # Entry(kind, p).name
                      /\ Entry(kind, p).ityp = p - 1
                /\ \A x \in Places(kind) :
                      \E p \in 1..Len(T) :
                          /\ Entry(kind, p).name = At(kind, x).name
                          /\ At(kind, x).ityp = p - 1

C8_Witness ==
    /\ pc = "sys_done"
    /\ Len(spec) = 2
    /\ Len(tables.atom) >= 2
    /\ Len(tables.bond) >= 2
    /\ Len(tables.dihed) >= 1
    /\ Len(tables.dimpr) >= 1
    /\ \E x, y \in Places("atom") :
          x[1] # y[1] /\ At("atom", x).name = At("atom", y).name

(* C9: when system.__init__ has returned, with n entries in the table of   *)
(* atom types, the vdw list has n(n+1)/2 elements, exactly one for every   *)
(* pair of table positions a <= b, named after the two entries and with    *)
(* ityp and jtyp the two positions counted from 0, so ityp <= jtyp.        *)
C9_VdwPairs ==
    pc = "sys_done" =>
        LET n == Len(tables.atom)
        IN  /\ 2 * Len(vdw) = n * (n + 1)
            /\ \A a, b \in 1..n :
                  a <= b =>
                      Cardinality({v \in 1..Len(vdw) :
                                      /\ vdw[v].ityp = a - 1
                                      /\ vdw[v].jtyp = b - 1
                                      /\ vdw[v].i = Entry("atom", a).name
                                      /\ vdw[v].j = Entry("atom", b).name})
                          = 1
            /\ \A v \in 1..Len(vdw) : vdw[v].ityp <= vdw[v].jtyp

C9_Witness ==
    /\ pc = "sys_done"
    /\ Len(tables.atom) = 3
    /\ Len(vdw) = 6

(* two atom types for which vdw.__init__ exits *)
Incompatible(a, b) == a.pot # b.pot \/ Len(a.par) # Len(b.par)

(* C10: system.__init__ returns only if no two atom types of the table     *)
(* differ in their potential or in the length of their parameter lists;    *)
(* otherwise the construction of a vdw object has exited, and the vdw list *)
(* never holds a cross-term of two such atom types.                        *)
C10_VdwIncompatibleAborts ==
    /\ pc = "sys_done" =>
          \A a, b \in 1..Len(tables.atom) :
              ~Incompatible(Entry("atom", a), Entry("atom", b))
    /\ pc = "sys_abort" =>
          \E a, b \in 1..Len(tables.atom) :
              Incompatible(Entry("atom", a), Entry("atom", b))
    /\ PastAssign =>
          \A v \in 1..Len(vdw) :
              \A a, b \in 1..Len(tables.atom) :
                  /\ Entry("atom", a).name = vdw[v].i
                  /\ Entry("atom", b).name = vdw[v].j
                  => ~Incompatible(Entry("atom", a), Entry("atom", b))

C10_Witness ==
    /\ pc = "sys_abort"
    /\ Len(vdw) >= 1
    /\ \A a, b \in 1..Len(tables.atom) :
          Entry("atom", a).pot = Entry("atom", b).pot

(* C11: a cross-term of two Lennard-Jones atom types of different names    *)
(* has eps = sqrt(eps_i * eps_j) under every mixing rule, and sigma =      *)
(* sqrt(sigma_i * sigma_j) if mix is "g", (sigma_i + sigma_j) / 2          *)
(* otherwise; the cross-term of a type with itself has the parameters of   *)
(* the type.                                                               *)
C11_MixingRule ==
    pc \in {"sys_done", "sys_abort"} =>
        \A v \in 1..Len(vdw) :
            LET a == Entry("atom", vdw[v].ityp + 1)
                b == Entry("atom", vdw[v].jtyp + 1)
                p == vdw[v].par
            IN  vdw[v].pot = "lj" =>
                    IF vdw[v].ityp = vdw[v].jtyp THEN p = a.par
                    ELSE /\ Len(p) = 2
                         /\ p[2] >= 0 /\ p[2] * p[2] = a.par[2] * b.par[2]
                         /\ mix = "g" =>
                               p[1] >= 0 /\ p[1] * p[1] = a.par[1] * b.par[1]
                         /\ mix # "g" => 2 * p[1] = a.par[1] + b.par[1]

C11_Witness ==
    /\ pc = "sys_done"
    /\ mix = "x"
    /\ \E v \in 1..Len(vdw) :
          /\ vdw[v].pot = "lj"
          /\ vdw[v].ityp # vdw[v].jtyp
          /\ Entry("atom", vdw[v].ityp + 1).par[1]
                # Entry("atom", vdw[v].jtyp + 1).par[1]

(* C12: after connectivity, a pair of atoms i < j is bonded if and only if *)
(* some bond record of the force field is named Ti-Tj or Tj-Ti and the     *)
(* distance r of the pair has |r - eq| < BondTol for that record; every    *)
(* bond is between atoms i < j.                                            *)
InTolerance(t, r) == r - t.par[1] < BondTol /\ t.par[1] - r < BondTol
Bonded(i, j) == \E n \in 1..Len(bond) : bond[n].i = i /\ bond[n].j = j
Connected == guess /\ pc \notin {"topology", "conn_bonds", "abort"}
C12_BondedIffTemplateInTolerance ==
    Connected =>
        /\ \A n \in 1..Len(bond) :
              bond[n].i < bond[n].j /\ bond[n].j < Len(atom) /\ bond[n].i >= 0
        /\ \A i, j \in 0..(Len(atom) - 1) :
              i < j =>
                 (Bonded(i, j) <=>
                     \E k \in 1..Len(ff.bond) :
                        /\ BondFits(ff.bond[k], [i |-> i, j |-> j])
                        /\ InTolerance(ff.bond[k], geom.r[{i, j}]))

(* a pair with a record exactly at the tolerance and no other in tolerance *)
(* is left unbonded, next to a bonded pair and a pair without a record     *)
C12_Witness ==
    /\ Connected
    /\ geom.r[{0, 1}] = 178
    /\ ~Bonded(0, 1)
    /\ \E k \in 1..Len(ff.bond) :
          /\ BondFits(ff.bond[k], [i |-> 0, j |-> 1])
          /\ ff.bond[k].par[1] = 153
    /\ \E i, j \in 0..(Len(atom) - 1) : Bonded(i, j)
    /\ \E i, j \in 0..(Len(atom) - 1) :
          i < j /\ ~BondHasTemplate([i |-> i, j |-> j])

(* C13: for a bond list without self-bonds and repeated pairs, the angle   *)
(* list holds exactly one angle (k,i,l) for every atom i and every         *)
(* unordered pair {k,l} of distinct neighbours of i, and no other angle;   *)
(* their number is the sum over the atoms of deg*(deg-1)/2, whatever the   *)
(* order and the orientation of the bonds.                                 *)
Built == ~guess /\ inp.ff /\ pc = "setff"
AtomIds == 0..(Len(atom) - 1)
Nbrs(i) ==
    {x \in AtomIds : \E n \in 1..Len(bond) : {bond[n].i, bond[n].j} = {i, x}}
AnglesAt(i, k, l) ==
    {n \in 1..Len(angle) :
        angle[n].j = i /\ {angle[n].i, angle[n].k} = {k, l}}
RECURSIVE SumPairs(_)
SumPairs(S) ==
    IF S = {} THEN 0
    ELSE LET i == CHOOSE x \in S : TRUE
             deg == Cardinality(Nbrs(i))
         IN  (deg * (deg - 1)) \div 2 + SumPairs(S \ {i})
C13_OneAnglePerNeighbourPair ==
    Built =>
        /\ \A i \in AtomIds : \A k, l \in Nbrs(i) :
              k # l => Cardinality(AnglesAt(i, k, l)) = 1
        /\ \A n \in 1..Len(angle) :
              /\ angle[n].i # angle[n].k
              /\ {angle[n].i, angle[n].k} \subseteq Nbrs(angle[n].j)
        /\ Len(angle) = SumPairs(AtomIds)

(* an atom with three neighbours, reached by bonds of both orientations *)
C13_Witness ==
    /\ Built
    /\ \E i \in AtomIds : Cardinality(Nbrs(i)) = 3
    /\ \E n, p \in 1..Len(bond) : bond[n].i < bond[n].j /\ bond[p].i > bond[p].j
    /\ Len(angle) = 3

(* C14: for a bond list without self-bonds and repeated pairs, the         *)
(* dihedral list holds exactly one dihedral for every path a-b-c-d of      *)
(* three distinct bonds, counted together with its reverse d-c-b-a, in     *)
(* whichever orientation the three bonds are listed, and every dihedral is *)
(* such a path; a chain of four atoms gives one dihedral.                  *)
IsBond(x, y) == \E n \in 1..Len(bond) : {bond[n].i, bond[n].j} = {x, y}
(* a-b-c-d with b-c a bond, a a neighbour of b other than c and d a        *)
(* neighbour of c other than b: then a-b, b-c, c-d are three distinct      *)
(* bonds, and every path of three distinct bonds is of this form           *)
Paths ==
    UNION {{<<a, bc[1], bc[2], d>> :
               a \in Nbrs(bc[1]) \ {bc[2]}, d \in Nbrs(bc[2]) \ {bc[1]}} :
           bc \in {e \in AtomIds \X AtomIds : IsBond(e[1], e[2])}}
Tuple4(d) == <<d.i, d.j, d.k, d.l>>
DihedsOn(p) ==
    {n \in 1..Len(dihed) :
        Tuple4(dihed[n]) \in {p, <<p[4], p[3], p[2], p[1]>>}}
IsChain4 ==
    /\ Len(bond) = 3
    /\ \E a, b, c, d \in AtomIds :
          /\ Cardinality({a, b, c, d}) = 4
          /\ IsBond(a, b) /\ IsBond(b, c) /\ IsBond(c, d)
C14_OneDihedralPerPath ==
    Built =>
        /\ \A p \in Paths : Cardinality(DihedsOn(p)) = 1
        /\ \A n \in 1..Len(dihed) : Tuple4(dihed[n]) \in Paths
        /\ IsChain4 => Len(dihed) = 1

(* a chain of four atoms whose bonds are listed in both orientations, the  *)
(* outer bonds pointing towards the central one                            *)
C14_Witness ==
    /\ Built
    /\ IsChain4
    /\ Len(dihed) = 1
    /\ \E k, l, j \in 1..Len(bond) :
          /\ bond[l].j = bond[k].i
          /\ bond[j].j = bond[k].j
          /\ k # l /\ k # j /\ l # j

(* C15: if the molecule file supplies no improper, the improper list holds *)
(* exactly one improper (n0,n1,c,n2) for every atom c with exactly three   *)
(* bonded neighbours, n0, n1, n2 being the neighbours in the order of      *)
(* their bonds in the bond list, and none for any other atom; if the file  *)
(* supplies an improper, the list holds the supplied impropers only.       *)
BondsAt(c) == {n \in 1..Len(bond) : c \in {bond[n].i, bond[n].j}}
Other(n, c) == IF bond[n].i = c THEN bond[n].j ELSE bond[n].i
InBondOrder(d) ==
    \E n0, n1, n2 \in BondsAt(d.k) :
        /\ n0 < n1 /\ n1 < n2
        /\ d.i = Other(n0, d.k) /\ d.j = Other(n1, d.k) /\ d.l = Other(n2, d.k)
C15_ImproperPerThreeNeighbourAtom ==
    Built =>
        IF inp.improper = <<>>
        THEN /\ \A c \in AtomIds :
                   Cardinality({n \in 1..Len(dimpr) : dimpr[n].k = c})
                       = IF Cardinality(Nbrs(c)) = 3 THEN 1 ELSE 0
             /\ \A n \in 1..Len(dimpr) :
                   dimpr[n].k \in AtomIds /\ InBondOrder(dimpr[n])
        ELSE /\ Len(dimpr) = Len(inp.improper)
             /\ \A n \in 1..Len(dimpr) :
                   Tuple4(dimpr[n]) = inp.improper[n]

(* an atom with three neighbours that are not in ascending order in the    *)
(* bond list gets its improper                                             *)
C15_Witness ==
    /\ Built
    /\ inp.improper = <<>>
    /\ \E n \in 1..Len(dimpr) :
          /\ Cardinality(Nbrs(dimpr[n].k)) = 3
          /\ dimpr[n].i > dimpr[n].j
          /\ dimpr[n].i < dimpr[n].k

(* C16: an angle removed because its measured value fails the tolerance    *)
(* check has its type in the molecule's list of missing angle types, as an *)
(* angle without a matching template has.                                  *)
TypeName3(a) == Name3(TypeOf(a.i), TypeOf(a.j), TypeOf(a.k))
TypeName3Rev(a) == Name3(TypeOf(a.k), TypeOf(a.j), TypeOf(a.i))
LastOf(K) == CHOOSE x \in K : \A y \in K : y <= x
AtomRecords(n) == {k \in 1..Len(ff.atom) : ff.atom[k].name = atom[n].name}
BondRecords(b) == {k \in 1..Len(ff.bond) : BondFits(ff.bond[k], b)}
AngleRecords(a) == {k \in 1..Len(ff.angle) : AngleFits(ff.angle[k], a)}
DihedRecords(d) == {k \in 1..Len(ff.dihed) : DihedFits(ff.dihed[k], d)}
C17_LastMatchingRecordWins ==
    /\ pc = "abort" => ~AllAtomsResolved \/ ~AllBondsMatched
    /\ pc \in {"bonds", "angles", "diheds", "dimprs", "duplicates", "done"}
          /\ inp.ff =>
          \A n \in 1..Len(atom) :
              AtomRecords(n) # {} =>
                  LET t == ff.atom[LastOf(AtomRecords(n))]
                  IN  /\ atom[n].type = t.type /\ atom[n].q = t.q
                      /\ atom[n].pot = t.pot /\ atom[n].par = t.par
    /\ PastBonds /\ inp.ff =>
          \A n \in 1..Len(bond) :
              BondRecords(bond[n]) # {} =>
                  LET t == ff.bond[LastOf(BondRecords(bond[n]))]
                  IN  /\ bond[n].name = Name2(t.iatp, t.jatp)
                      /\ bond[n].pot = t.pot /\ bond[n].par = t.par
    /\ PastAngles /\ inp.ff =>
          \A n \in 1..Len(angle) :
              AngleRecords(angle[n]) # {} =>
                  LET t == ff.angle[LastOf(AngleRecords(angle[n]))]
                  IN  /\ angle[n].name = Name3(t.iatp, t.jatp, t.katp)
                      /\ angle[n].pot = t.pot /\ angle[n].par = t.par
    /\ pc \in {"dimprs", "duplicates", "done"} /\ inp.ff =>
          \A n \in 1..Len(dihed) :
              DihedRecords(dihed[n]) # {} =>
                  LET t == ff.dihed[LastOf(DihedRecords(dihed[n]))]
                  IN  /\ dihed[n].name = Name4(t.iatp, t.jatp, t.katp, t.latp)
                      /\ dihed[n].pot = t.pot /\ dihed[n].par = t.par

(* setff has returned for a molecule with an atom, a bond, an angle and a  *)
(* dihedral that two records with different parameters match               *)
TwoRecords(K, tbl) == \E x, y \in K : x # y /\ tbl[x].par # tbl[y].par
C17_Witness ==
    /\ pc = "done"
    /\ \E n \in 1..Len(atom) : TwoRecords(AtomRecords(n), ff.atom)
    /\ \E n \in 1..Len(bond) : TwoRecords(BondRecords(bond[n]), ff.bond)
    /\ \E n \in 1..Len(angle) : TwoRecords(AngleRecords(angle[n]), ff.angle)
    /\ \E n \in 1..Len(dihed) : TwoRecords(DihedRecords(dihed[n]), ff.dihed)

(* C18: zmat2cart places no atom whose record refers, for its distance,    *)
(* angle or dihedral, to anything but an atom placed before it: a record   *)
(* with a forward reference, a self reference or reference 0 is rejected.  *)
PlacedUpTo ==
    CASE pc = "zmat_second" -> 1
      [] pc = "zmat_third" -> 2
      [] pc = "zmat_loop" -> 3
      [] pc = "placed" -> Len(atom)
      [] OTHER -> 0
ValidRefs(i) ==
    LET zat == inp.zatom[i]
    IN  /\ i >= 2 => zat.ir \in 1..(i - 1)
        /\ i >= 3 => zat.ia \in 1..(i - 1)
        /\ i >= 4 => zat.id \in 1..(i - 1)
C18_InvalidReferenceRejected ==
    \A i \in 1..PlacedUpTo : ValidRefs(i)

(* C19: for a valid z-matrix of four records, after zmat2cart the length   *)
(* between each atom and its distance reference, the angle at the distance *)
(* reference towards the angle reference and the dihedral angle along      *)
(* atom, distance, angle and dihedral reference are those of the records.  *)
Sign(x) == IF x > 0 THEN 1 ELSE IF x < 0 THEN -1 ELSE 0
ValidZmat ==
    /\ \A i \in 1..Len(inp.zatom) : ValidRefs(i)
    /\ Len(inp.zatom) >= 3 => inp.zatom[3].ir # inp.zatom[3].ia
    /\ Len(inp.zatom) >= 4 =>
          Cardinality({inp.zatom[4].ir, inp.zatom[4].ia, inp.zatom[4].id}) = 3
LengthIs(i) ==
    LET zat == inp.zatom[i]
        vBA == VSub(Pos(atom, i), Pos(atom, zat.ir))
    IN  VDot(vBA, vBA) = zat.r * zat.r
AngleIs(i) ==
    LET zat == inp.zatom[i]
        vBA == VSub(Pos(atom, i), Pos(atom, zat.ir))
        vBC == VSub(Pos(atom, zat.ia), Pos(atom, zat.ir))
        dot == VDot(vBA, vBC)
    IN  /\ Sign(dot) = Sign(Cos5(zat.a))
        /\ 25 * dot * dot
              = Cos5(zat.a) * Cos5(zat.a) * VDot(vBA, vBA) * VDot(vBC, vBC)
DihedralIs(i) ==
    LET zat == inp.zatom[i]
        b1 == VSub(Pos(atom, zat.ir), Pos(atom, i))
        b2 == VSub(Pos(atom, zat.ia), Pos(atom, zat.ir))
        b3 == VSub(Pos(atom, zat.id), Pos(atom, zat.ia))
        n1 == VCross(b1, b2)
        n2 == VCross(b2, b3)
    IN  /\ Sign(VDot(n1, n2)) = Sign(Cos5(zat.d))
        /\ Sign(VDot(VCross(n1, n2), b2)) = Sign(Sin5(zat.d))
C19_ZmatRoundTrip ==
    ValidZmat /\ Len(inp.zatom) = 4 /\ pc \notin {"zmat2cart", "zmat_second",
                                                 "zmat_third", "zmat_loop"} =>
        /\ pc = "placed"
        /\ LengthIs(2) /\ LengthIs(3) /\ LengthIs(4)
        /\ AngleIs(3) /\ AngleIs(4)
        /\ DihedralIs(4)

(* the fourth atom hangs on the first, under arccos(3/5) to a diagonal of  *)
(* the first three atoms and out of their plane                            *)
C19_Witness ==
    /\ pc = "placed"
    /\ Len(inp.zatom) = 4
    /\ ValidZmat
    /\ inp.zatom[4].ir = 1 /\ inp.zatom[4].ia = 3
    /\ inp.zatom[3].ir = 2
    /\ inp.zatom[4].a = 53
    /\ inp.zatom[4].d = 270
    /\ atom[4].z # 0

(* C20: in an orthogonal cell the distance of two atoms does not change    *)
(* when either atom is moved by one box length along a periodic axis, and  *)
(* an atom and its image one box length away along a periodic axis are at  *)
(* distance 0.  Atoms 0 and 1 are p and q, atom 2 is q moved and atom 3 is *)
(* p moved along the axis inp.axis.                                        *)
C20_PeriodicTranslationInvariant ==
    pc = "measured" /\ inp.axis \in inp.box.pbc =>
        /\ geom.r[{0, 2}] = geom.r[{0, 1}]
        /\ geom.r[{1, 3}] = geom.r[{0, 1}]
        /\ geom.r[{2, 3}] = geom.r[{0, 1}]
        /\ geom.r[{1, 2}] = 0
        /\ geom.r[{0, 3}] = 0

(* p and q are half a box length apart along the periodic axis, where the  *)
(* rounding meets a tie, and apart along another axis as well              *)
C20_Witness ==
    /\ pc = "measured"
    /\ inp.axis = "x"
    /\ "x" \in inp.box.pbc
    /\ Abs(atom[2].x - atom[1].x) = 2
    /\ atom[2].y # atom[1].y
    /\ geom.r[{0, 1}] > 4
    /\ geom.r[{0, 2}] = geom.r[{0, 1}]

(* C21: a cell built with the three angles 90 and positive a, b, c has the *)
(* triclinic flag false, lx = a, ly = b, lz = c and the tilt factors xy,   *)
(* xz, yz zero, and ctof gives back the vector that ftoc was given; a cell *)
(* built with an angle that is not 90 has the flag true.                   *)
OrthogonalInput ==
    /\ inp.alpha = 90 /\ inp.beta = 90 /\ inp.gamma = 90
    /\ inp.a > 0 /\ inp.b > 0 /\ inp.c > 0
C21_OrthogonalCell ==
    /\ pc # "cell_init" /\ OrthogonalInput =>
          /\ pc # "exception"
          /\ ~geom.box.triclinic
          /\ geom.box.lx = RI(inp.a)
          /\ geom.box.ly = RI(inp.b)
          /\ geom.box.lz = RI(inp.c)
          /\ geom.box.xy = RZero /\ geom.box.xz = RZero /\ geom.box.yz = RZero
    /\ pc = "fractional" /\ OrthogonalInput => geom.xf = inp.x
    /\ pc \in {"cell", "cartesian", "fractional"}
          /\ (inp.alpha # 90 \/ inp.beta # 90 \/ inp.gamma # 90) =>
          geom.box.triclinic

C21_Witness ==
    /\ pc = "fractional" /\ OrthogonalInput
    /\ inp.a = 3 /\ inp.b = 5 /\ inp.c = 4
    /\ inp.x = <<Rat(1, 2), RI(-2), Rat(1, 2)>>
    /\ geom.xc = <<Rat(3, 2), RI(-10), RI(2)>>
    /\ geom.xf = inp.x

(* C30: a cell constructed with b or c left at 0 is the cell whose omitted *)
(* edge equals a: the construction succeeds, and with the three angles 90  *)
(* the box sizes are a, self.b, self.c and the volume is their product     *)
(* (a, a, a and a*a*a when both are omitted).                              *)
C30_OmittedEdgeDefaultsToA ==
    (/\ pc # "cell_init" /\ inp.a > 0 /\ (inp.b = 0 \/ inp.c = 0)
     /\ inp.alpha = 90 /\ inp.beta = 90 /\ inp.gamma = 90) =>
          LET eb == IF inp.b = 0 THEN inp.a ELSE inp.b
              ec == IF inp.c = 0 THEN inp.a ELSE inp.c
          IN  /\ pc # "exception"
              /\ geom.box.lx = RI(inp.a)
              /\ geom.box.ly = RI(eb)
              /\ geom.box.lz = RI(ec)
              /\ geom.box.vol = RI(inp.a * eb * ec)

(* C22: angle3atoms called with a centre atom that coincides with one of   *)
(* the two outer atoms, as it is or after the minimum-image correction,    *)
(* does not fail with a division by zero.                                  *)
CentreCoincides ==
    LET v == AngleVectors(atom[1], atom[2], atom[3], inp.box, inp.round)
    IN  v.ji = <<0, 0, 0>> \/ v.jk = <<0, 0, 0>>
C22_CoincidentCentreReported ==
    pc # "measure_angle" /\ CentreCoincides => pc # "exception"

(* C23: in every state reached while a molecule is built, every atom index *)
(* stored in a bond, an angle, a dihedral or an improper of the molecule   *)
(* is one of 0 .. natom-1.                                                 *)
TermIndices ==
    UNION {{bond[n].i, bond[n].j} : n \in 1..Len(bond)}
    \cup UNION {{angle[n].i, angle[n].j, angle[n].k} : n \in 1..Len(angle)}
    \cup UNION {{dihed[n].i, dihed[n].j, dihed[n].k, dihed[n].l} :
                   n \in 1..Len(dihed)}
    \cup UNION {{dimpr[n].i, dimpr[n].j, dimpr[n].k, dimpr[n].l} :
                   n \in 1..Len(dimpr)}
C23_TermIndicesInRange == TermIndices \subseteq 0..(Len(atom) - 1)

(* C24: every dihedral that anglesdiheds emits for a bond list without     *)
(* self-bonds and without repeated pairs names four pairwise-distinct      *)
(* atoms.                                                                  *)
C24_DihedralAtomsDistinct ==
    Built =>
        \A n \in 1..Len(dihed) :
            Cardinality({dihed[n].i, dihed[n].j, dihed[n].k, dihed[n].l}) = 4

(* C25: the bond list that connectivity produces holds each unordered atom *)
(* pair at most once.                                                      *)
C25_InferredBondsOncePerPair ==
    guess /\ pc = "setff" =>
        \A m, n \in 1..Len(bond) :
            m # n => {bond[m].i, bond[m].j} # {bond[n].i, bond[n].j}

(* C26: after system.__init__, for every atom of every species the entry   *)
(* of the global atom-type table at the atom's ityp carries the atom's     *)
(* type label, charge, potential tag and parameter list.                   *)
C26_AtomTypeEntryMatchesAtom ==
    pc = "sys_done" =>
        \A s \in 1..Len(spec) : \A n \in 1..Len(spec[s].atom) :
            LET a == spec[s].atom[n]
            IN  /\ a.ityp \in 0..(Len(tables.atom) - 1)
                /\ LET e == Obj(spec, "atom", tables.atom[a.ityp + 1])
                   IN  /\ e.type = a.type
                       /\ e.q = a.q
                       /\ e.pot = a.pot
                       /\ e.par = a.par

(* C27: every angle that is in the angle list after the angles have been   *)
(* matched has a measured value within AngleTol of the equilibrium value   *)
(* of the parameters it carries.                                           *)
C27_KeptAngleWithinTolerance ==
    PastAngles /\ inp.ff =>
        \A n \in 1..Len(angle) :
            Abs(geom.th[<<angle[n].j, {angle[n].i, angle[n].k}>>]
                - Seteqval(angle[n])) < AngleTol

(* an angle is kept that two records of the table fit, next to one that    *)
(* was removed                                                             *)
C27_Witness ==
    /\ PastAngles /\ inp.ff
    /\ Len(angle) < Len(pre.angle)
    /\ \E n \in 1..Len(angle) :
          /\ Cardinality({k \in 1..Len(ff.angle) :
                             AngleFits(ff.angle[k], angle[n])}) = 2
          /\ angle[n].par = ff.angle[2].par
          /\ geom.th[<<angle[n].j, {angle[n].i, angle[n].k}>>] = 95

(* C28: the matching of the impropers only permutes atoms within an        *)
(* improper: every improper left in the list has the atom k and the set of *)
(* four atoms {i, j, k, l} that it had before the matching.                *)
C28_ImproperMatchingPermutesOuterAtoms ==
    [][pc = "dimprs" =>
          LET Stays(p) == p \notin Range(toremove'.di)
              kept == SelectSeq([p \in 1..Len(dimpr) |-> p], Stays)
          IN  /\ Len(dimpr') = Len(kept)
              /\ \A m \in 1..Len(kept) :
                    /\ dimpr'[m].k = dimpr[kept[m]].k
                    /\ AtomSet(dimpr'[m]) = AtomSet(dimpr[kept[m]])]_vars

(* an improper that two records of the table fit has been matched with     *)
(* other atoms at i and at l, and no improper was removed                  *)
C28_Witness ==
    /\ pc = "duplicates" \/ (pc = "done" /\ prog = "fftool_tri")
    /\ Len(dimpr) = Len(pre.dimpr)
    /\ \E n \in 1..Len(dimpr) :
          /\ <<"duplicate improper", n>> \in log
          /\ dimpr[n].k = pre.dimpr[n].k
          /\ dimpr[n].l # pre.dimpr[n].l
          /\ dimpr[n].i # pre.dimpr[n].i

(* C29: every vdw object that was constructed without an error has its     *)
(* parameter list set, whatever the potential tag of its two atom types.   *)
C29_VdwParametersSet ==
    \A n \in 1..Len(vdw) : vdw[n].haspar

====
